---- MODULE Spec2Model ----
(***************************************************************************)
(* A model of the mat4 class of gl-matrix-ts (src/mat4.ts): one mat4       *)
(* object, the receiver of every call, and the calls made on it.           *)
(*                                                                         *)
(* Numbers.  A JavaScript number is modelled as an exact rational          *)
(* <<num, den>> in lowest terms with den > 0, extended with <<1, 0>>       *)
(* (+Infinity), <<-1, 0>> (-Infinity) and <<0, 0>> (NaN).  The sign of     *)
(* zero is not modelled.  The elements of a mat4 live in a Float32Array:   *)
(* the model covers the calls whose stored results are float32 values      *)
(* (dyadic rationals of bounded size, see Storable), for which the store   *)
(* rounds nothing; a call that would store any other value is outside the  *)
(* model (its action is disabled).  Math.hypot and Math.sqrt are modelled  *)
(* where their result is rational.  Math.sin, Math.cos and Math.tan are    *)
(* modelled by the exact values of sine, cosine and tangent at the angles  *)
(* of Angles and Fovs: the rounding of these three functions is not        *)
(* modelled.  Reciprocals are taken of powers of two only (see the         *)
(* Exact... guards), so that no intermediate value is rounded either.      *)
(* The one place where rounding is modelled is the determinant that        *)
(* invert() and determinant() compute for the matrices of WideData: there  *)
(* every product, sum and difference is rounded as a double is (see the    *)
(* double arithmetic section).                                             *)
(***************************************************************************)
EXTENDS Integers, Sequences, FiniteSets, TLC

VARIABLES
  m,           \* this.data of the receiver: 16 numbers, data[i] is m[i + 1]
  op,          \* the method called last ("new" after construction)
  args,        \* its arguments, in order
  ret,         \* what it returned: "this", "null", "data", "vec3" or "quat"
  out,         \* the data of the objects it returned or wrote to
  branch,      \* the path it took, for lookAt() and the perspectives
  origin,      \* the method that built the present contents of m
  originArgs,  \* and its arguments
  n,           \* in-place updates applied to m since it was built
  held,        \* the data that the objects passed in args hold after the call
  twin         \* another mat4, made by clone(): <<"none">> before there is
               \* one, <<"own", d>> when its data is an array of its own that
               \* holds d, <<"same">> when its data is the receiver's array

vars == <<m, op, args, ret, out, branch, origin, originArgs, n, held, twin>>

\* ------------------------------------------------------------------ bounds

\* At most MaxOps in-place updates (invert, multiply, rotate) follow a build.
MaxOps == 1
\* A stored element is k / 2^e with |k| <= MaxNum and e <= MaxDenLog.
MaxNum == 64
MaxDenLog == 4

\* ----------------------------------------------------------------- numbers

AbsI(i) == IF i < 0 THEN -i ELSE i

SgnI(i) == IF i < 0 THEN -1 ELSE IF i = 0 THEN 0 ELSE 1

RECURSIVE GCD(_, _)
GCD(a, b) == IF b = 0 THEN a ELSE GCD(b, a % b)

\* The rational num/den in lowest terms; x/0 is an infinity or NaN.
Norm(num, den) ==
  IF den = 0 THEN <<SgnI(num), 0>>
  ELSE LET g == GCD(AbsI(num), AbsI(den))
           s == SgnI(den)
       IN  <<s * (num \div g), s * (den \div g)>>

R(i) == <<i, 1>>
Zero == <<0, 1>>
One == <<1, 1>>
NaN == <<0, 0>>
Infinity == <<1, 0>>
IsFinite(a) == a[2] # 0

\* a + b
Add(a, b) ==
  IF a[2] = 0 /\ b[2] = 0 THEN (IF a = b THEN a ELSE NaN)
  ELSE Norm(a[1] * b[2] + b[1] * a[2], a[2] * b[2])

\* -a
Neg(a) == <<-a[1], a[2]>>

\* a - b
Sub(a, b) == Add(a, Neg(b))

\* a * b
Mul(a, b) == Norm(a[1] * b[1], a[2] * b[2])

\* a / b
Div(a, b) == Norm(a[1] * b[2], a[2] * b[1])

\* a < b (false when either is NaN)
Lt(a, b) ==
  IF a = NaN \/ b = NaN THEN FALSE
  ELSE IF a[2] = 0 /\ b[2] = 0 THEN a[1] < b[1]
  ELSE a[1] * b[2] < b[1] * a[2]

\* a > b
Gt(a, b) == Lt(b, a)

\* !a for a number: true of 0 and of NaN
Not(a) == a = Zero \/ a = NaN

\* Math.abs
MathAbs(a) == <<AbsI(a[1]), a[2]>>

\* The largest r in lo..hi with r * r <= k (lo * lo <= k is given).
RECURSIVE IRoot(_, _, _)
IRoot(k, lo, hi) ==
  IF lo >= hi THEN lo
  ELSE LET mid == (lo + hi + 1) \div 2
       IN  IF mid * mid <= k THEN IRoot(k, mid, hi) ELSE IRoot(k, lo, mid - 1)

ISqrt(k) == IRoot(k, 0, IF k < 46340 THEN k ELSE 46340)

IsSquare(k) == k >= 0 /\ ISqrt(k) * ISqrt(k) = k

\* The arguments on which Math.sqrt is modelled: its result is rational, an
\* infinity or NaN.
ExactSqrt(a) ==
  IF a[2] = 0 THEN TRUE
  ELSE IF a[1] < 0 THEN TRUE
  ELSE IsSquare(a[1]) /\ IsSquare(a[2])

\* Math.sqrt
MathSqrt(a) ==
  IF a = NaN \/ a[1] < 0 THEN NaN
  ELSE IF a[2] = 0 THEN Infinity
  ELSE <<ISqrt(a[1]), ISqrt(a[2])>>

\* x*x + y*y + z*z, the square of Math.hypot(x, y, z)
SumSq(x, y, z) == Add(Add(Mul(x, x), Mul(y, y)), Mul(z, z))

\* The arguments on which Math.hypot is modelled.  With at most one
\* non-zero argument the result is its absolute value, which needs no square.
ExactHypot(x, y, z) ==
  IF Cardinality({i \in 1..3 : <<x, y, z>>[i] # Zero}) <= 1 THEN TRUE
  ELSE ExactSqrt(SumSq(x, y, z))

\* Math.hypot(x, y, z)
MathHypot(x, y, z) ==
  IF \E i \in 1..3 : <<x, y, z>>[i][2] = 0 /\ <<x, y, z>>[i] # NaN THEN Infinity
  ELSE IF y = Zero /\ z = Zero THEN MathAbs(x)
  ELSE IF x = Zero /\ z = Zero THEN MathAbs(y)
  ELSE IF x = Zero /\ y = Zero THEN MathAbs(z)
  ELSE MathSqrt(SumSq(x, y, z))

\* k is a power of two
RECURSIVE IsPow2(_)
IsPow2(k) == IF k <= 1 THEN k = 1 ELSE k % 2 = 0 /\ IsPow2(k \div 2)

\* The numbers a on which 1 / a is modelled: a power of two of either sign,
\* or a number whose reciprocal is zero, an infinity or NaN.
ExactReciprocal(a) ==
  IF a[2] = 0 THEN TRUE
  ELSE IF a = Zero THEN TRUE
  ELSE IsPow2(AbsI(a[1])) /\ IsPow2(a[2])

\* mathf.EPSILON = 0.000001
EPSILON == <<1, 1000000>>

\* The element of a one-element set: Only({e(v) : v \in {x}}) is e(x), with
\* x computed once.
Only(S) == CHOOSE r \in S : TRUE

\* ------------------------------------------------------- Float32Array data

RECURSIVE Pow2(_)
Pow2(e) == IF e = 0 THEN 1 ELSE 2 * Pow2(e - 1)

\* A value a Float32Array element holds exactly: a float32 value of the
\* model's window, an infinity or NaN.
Storable(a) ==
  IF IsFinite(a)
  THEN AbsI(a[1]) <= MaxNum /\ a[2] <= Pow2(MaxDenLog) /\ IsPow2(a[2])
  ELSE TRUE

StorableAll(d) == \A i \in 1..Len(d) : Storable(d[i])

\* mat4._identity
Identity ==
  <<One, Zero, Zero, Zero, Zero, One, Zero, Zero,
    Zero, Zero, One, Zero, Zero, Zero, Zero, One>>

\* Integer literals as numbers: a tuple of integers as a tuple of numbers.
Nums(t) ==
  <<R(t[1]), R(t[2]), R(t[3]), R(t[4]), R(t[5]), R(t[6]), R(t[7]), R(t[8]),
    R(t[9]), R(t[10]), R(t[11]), R(t[12]), R(t[13]), R(t[14]), R(t[15]), R(t[16])>>

\* data[i] of a Float32Array held as a sequence
D(d, i) == d[i + 1]

\* ------------------------------------------------------ double arithmetic
\* Where rounding decides a result (the test of a determinant against 0), a
\* number is held as a double: <<sign, mag, exp>> for sign * mag * 2^exp, with
\* sign in {-1, 0, 1} and mag a natural number of any size, a sequence of
\* limbs, least significant first, base Limb, without leading zero limbs.
\* The operators +, - and * of the language round their exact result to 53
\* significant bits, ties to even; overflow and underflow are out of reach of
\* the data of the model.

Limb == 16384
LimbBits == 14

\* a without its leading zero limbs
RECURSIVE MagTrim(_)
MagTrim(a) ==
  IF a = <<>> THEN <<>>
  ELSE IF a[Len(a)] = 0 THEN MagTrim(SubSeq(a, 1, Len(a) - 1))
  ELSE a

\* a + b + c for a carry c
RECURSIVE MagAddC(_, _, _)
MagAddC(a, b, c) ==
  IF a = <<>> /\ b = <<>> THEN (IF c = 0 THEN <<>> ELSE <<c>>)
  ELSE LET x == (IF a = <<>> THEN 0 ELSE Head(a)) + (IF b = <<>> THEN 0 ELSE Head(b)) + c
       IN  <<x % Limb>> \o MagAddC(IF a = <<>> THEN <<>> ELSE Tail(a),
                                   IF b = <<>> THEN <<>> ELSE Tail(b), x \div Limb)

MagAdd(a, b) == MagAddC(a, b, 0)

\* a - b - c for a borrow c, where a >= b + c; leading zeros are left in
RECURSIVE MagSubC(_, _, _)
MagSubC(a, b, c) ==
  IF a = <<>> THEN <<>>
  ELSE LET x == Head(a) - (IF b = <<>> THEN 0 ELSE Head(b)) - c
       IN  <<x % Limb>> \o MagSubC(Tail(a), IF b = <<>> THEN <<>> ELSE Tail(b),
                                   IF x < 0 THEN 1 ELSE 0)

MagSub(a, b) == MagTrim(MagSubC(a, b, 0))

\* -1, 0 or 1 as a < b, a = b or a > b
RECURSIVE MagCmp(_, _)
MagCmp(a, b) ==
  IF Len(a) # Len(b) THEN (IF Len(a) < Len(b) THEN -1 ELSE 1)
  ELSE IF a = <<>> THEN 0
  ELSE IF a[Len(a)] # b[Len(b)] THEN (IF a[Len(a)] < b[Len(b)] THEN -1 ELSE 1)
  ELSE MagCmp(MagTrim(SubSeq(a, 1, Len(a) - 1)), MagTrim(SubSeq(b, 1, Len(b) - 1)))

\* a * k + c for one limb k and a carry c; leading zeros are left in
RECURSIVE MagMulLimb(_, _, _)
MagMulLimb(a, k, c) ==
  IF a = <<>> THEN (IF c = 0 THEN <<>> ELSE <<c>>)
  ELSE LET x == Head(a) * k + c
       IN  <<x % Limb>> \o MagMulLimb(Tail(a), k, x \div Limb)

RECURSIVE MagMulAll(_, _)
MagMulAll(a, b) ==
  IF b = <<>> THEN <<>>
  ELSE MagAdd(MagMulLimb(a, Head(b), 0), <<0>> \o MagMulAll(a, Tail(b)))

\* a * b
MagMul(a, b) == MagTrim(MagMulAll(a, b))

\* The number of bits of a limb k
RECURSIVE LimbLen(_)
LimbLen(k) == IF k = 0 THEN 0 ELSE 1 + LimbLen(k \div 2)

\* The number of significant bits of a
BitLen(a) == IF a = <<>> THEN 0 ELSE LimbBits * (Len(a) - 1) + LimbLen(a[Len(a)])

\* 2^s
MagPow2(s) == [i \in 1..(s \div LimbBits) |-> 0] \o <<Pow2(s % LimbBits)>>

\* a mod 2^s
MagLow(a, s) ==
  LET ls == s \div LimbBits
  IN  IF Len(a) <= ls THEN a
      ELSE MagTrim(SubSeq(a, 1, ls) \o <<a[ls + 1] % Pow2(s % LimbBits)>>)

\* bit s of a
MagBit(a, s) ==
  LET ls == s \div LimbBits
  IN  IF Len(a) <= ls THEN 0 ELSE (a[ls + 1] \div Pow2(s % LimbBits)) % 2

\* a rounded to p significant bits, to the nearest, ties to even
MagRound(a, p) ==
  IF BitLen(a) <= p THEN a
  ELSE LET s == BitLen(a) - p
           low == MagLow(a, s)
           c == MagCmp(low, MagPow2(s - 1))
           up == IF c = 0 THEN MagBit(a, s) = 1 ELSE c > 0
       IN  IF up THEN MagAdd(MagSub(a, low), MagPow2(s)) ELSE MagSub(a, low)

\* The significand of a double has 53 bits.
DoubleBits == 53

DoubleZero == <<0, <<>>, 0>>

\* The exact product, before rounding
DoubleTimes(a, b) ==
  IF a[1] = 0 \/ b[1] = 0 THEN DoubleZero
  ELSE <<a[1] * b[1], MagMul(a[2], b[2]), a[3] + b[3]>>

\* a with its exponent lowered to e <= a[3]
DoubleAt(a, e) == IF a[3] = e THEN a[2] ELSE MagMul(a[2], MagPow2(a[3] - e))

\* The exact sum, before rounding
DoublePlus(a, b) ==
  IF a[1] = 0 THEN b
  ELSE IF b[1] = 0 THEN a
  ELSE Only({ Only({ Only({
         IF a[1] = b[1] THEN <<a[1], MagAdd(x, y), e>>
         ELSE IF c = 0 THEN DoubleZero
         ELSE IF c > 0 THEN <<a[1], MagSub(x, y), e>>
         ELSE <<b[1], MagSub(y, x), e>>
         : c \in {MagCmp(x, y)} })
         : x \in {DoubleAt(a, e)}, y \in {DoubleAt(b, e)} })
         : e \in {IF a[3] < b[3] THEN a[3] ELSE b[3]} })

DoubleRound(a) == <<a[1], MagRound(a[2], DoubleBits), a[3]>>

\* a * b, a + b, a - b of two doubles
FMul(a, b) == Only({ DoubleRound(r) : r \in {DoubleTimes(a, b)} })

FAdd(a, b) == Only({ DoubleRound(r) : r \in {DoublePlus(a, b)} })

FSub(a, b) ==
  Only({ DoubleRound(r) : r \in {DoublePlus(a, <<-b[1], b[2], b[3]>>)} })

\* !a for a double
FNot(a) == a[1] = 0

\* The limbs of a natural number k
RECURSIVE MagOf(_)
MagOf(k) == IF k = 0 THEN <<>> ELSE <<k % Limb>> \o MagOf(k \div Limb)

\* The exponent e of a power of two 2^e
RECURSIVE Log2(_)
Log2(k) == IF k <= 1 THEN 0 ELSE 1 + Log2(k \div 2)

\* A finite number of the rational model whose denominator is a power of two
\* (every finite float32 value is one), as a double
Double(a) == <<SgnI(a[1]), MagOf(AbsI(a[1])), -Log2(a[2])>>

\* ------------------------------------------------------------ mat4 methods
\* Each method is an operator from the receiver's data (and the arguments) to
\* [ret, data]: what the call returns and what the receiver holds after it.

\* The twelve 2x2 minors b00..b11 that invert() forms: b00..b05 from columns
\* 0 and 1 of the data, b06..b11 from columns 2 and 3.
InvertMinors(d) ==
  LET a00 == D(d, 0)   a01 == D(d, 1)   a02 == D(d, 2)   a03 == D(d, 3)
      a10 == D(d, 4)   a11 == D(d, 5)   a12 == D(d, 6)   a13 == D(d, 7)
      a20 == D(d, 8)   a21 == D(d, 9)   a22 == D(d, 10)  a23 == D(d, 11)
      a30 == D(d, 12)  a31 == D(d, 13)  a32 == D(d, 14)  a33 == D(d, 15)
  IN  [b00 |-> Sub(Mul(a00, a11), Mul(a01, a10)),
       b01 |-> Sub(Mul(a00, a12), Mul(a02, a10)),
       b02 |-> Sub(Mul(a00, a13), Mul(a03, a10)),
       b03 |-> Sub(Mul(a01, a12), Mul(a02, a11)),
       b04 |-> Sub(Mul(a01, a13), Mul(a03, a11)),
       b05 |-> Sub(Mul(a02, a13), Mul(a03, a12)),
       b06 |-> Sub(Mul(a20, a31), Mul(a21, a30)),
       b07 |-> Sub(Mul(a20, a32), Mul(a22, a30)),
       b08 |-> Sub(Mul(a20, a33), Mul(a23, a30)),
       b09 |-> Sub(Mul(a21, a32), Mul(a22, a31)),
       b10 |-> Sub(Mul(a21, a33), Mul(a23, a31)),
       b11 |-> Sub(Mul(a22, a33), Mul(a23, a32))]

\* A slip in the determinant: the term b04 * b07 added, not subtracted.
InvertDeterminantSign(b) ==
  Add(Add(Add(Add(Sub(Mul(b.b00, b.b11), Mul(b.b01, b.b10)), Mul(b.b02, b.b09)),
              Mul(b.b03, b.b08)), Mul(b.b04, b.b07)), Mul(b.b05, b.b06))

\* det = b00 * b11 - b01 * b10 + b02 * b09 + b03 * b08 - b04 * b07 + b05 * b06
InvertDeterminant(b) ==
  Add(Sub(Add(Add(Sub(Mul(b.b00, b.b11), Mul(b.b01, b.b10)), Mul(b.b02, b.b09)),
              Mul(b.b03, b.b08)), Mul(b.b04, b.b07)), Mul(b.b05, b.b06))

\* The product of the diagonal, the determinant of a triangular matrix only.
DeterminantDoubleDiagonal(d) ==
  FMul(FMul(FMul(Double(D(d, 0)), Double(D(d, 5))), Double(D(d, 10))), Double(D(d, 15)))

\* determinant() as the doubles compute it: every product, sum and difference
\* of lines 369 to 381 rounded, the operations of a line from left to right.
DeterminantDouble(d) ==
  LET a00 == Double(D(d, 0))   a01 == Double(D(d, 1))
      a02 == Double(D(d, 2))   a03 == Double(D(d, 3))
      a10 == Double(D(d, 4))   a11 == Double(D(d, 5))
      a12 == Double(D(d, 6))   a13 == Double(D(d, 7))
      a20 == Double(D(d, 8))   a21 == Double(D(d, 9))
      a22 == Double(D(d, 10))  a23 == Double(D(d, 11))
      a30 == Double(D(d, 12))  a31 == Double(D(d, 13))
      a32 == Double(D(d, 14))  a33 == Double(D(d, 15))
  IN  Only({ Only({
        FSub(FAdd(FSub(FMul(a13, b6), FMul(a03, b7)), FMul(a33, b8)), FMul(a23, b9))
        : b6 \in {FAdd(FSub(FMul(a00, b5), FMul(a01, b4)), FMul(a02, b3))},
          b7 \in {FAdd(FSub(FMul(a10, b5), FMul(a11, b4)), FMul(a12, b3))},
          b8 \in {FAdd(FSub(FMul(a20, b2), FMul(a21, b1)), FMul(a22, b0))},
          b9 \in {FAdd(FSub(FMul(a30, b2), FMul(a31, b1)), FMul(a32, b0))} })
        : b0 \in {FSub(FMul(a00, a11), FMul(a01, a10))},
          b1 \in {FSub(FMul(a00, a12), FMul(a02, a10))},
          b2 \in {FSub(FMul(a01, a12), FMul(a02, a11))},
          b3 \in {FSub(FMul(a20, a31), FMul(a21, a30))},
          b4 \in {FSub(FMul(a20, a32), FMul(a22, a30))},
          b5 \in {FSub(FMul(a21, a32), FMul(a22, a31))} })

\* det of invert() as the doubles compute it: the minors of lines 248 to 259
\* and the sum of line 262, every operation rounded.
InvertDeterminantDouble(d) ==
  LET a00 == Double(D(d, 0))   a01 == Double(D(d, 1))
      a02 == Double(D(d, 2))   a03 == Double(D(d, 3))
      a10 == Double(D(d, 4))   a11 == Double(D(d, 5))
      a12 == Double(D(d, 6))   a13 == Double(D(d, 7))
      a20 == Double(D(d, 8))   a21 == Double(D(d, 9))
      a22 == Double(D(d, 10))  a23 == Double(D(d, 11))
      a30 == Double(D(d, 12))  a31 == Double(D(d, 13))
      a32 == Double(D(d, 14))  a33 == Double(D(d, 15))
  IN  Only({
        FAdd(FSub(FAdd(FAdd(FSub(FMul(b00, b11), FMul(b01, b10)), FMul(b02, b09)),
                       FMul(b03, b08)), FMul(b04, b07)), FMul(b05, b06))
        : b00 \in {FSub(FMul(a00, a11), FMul(a01, a10))},
          b01 \in {FSub(FMul(a00, a12), FMul(a02, a10))},
          b02 \in {FSub(FMul(a00, a13), FMul(a03, a10))},
          b03 \in {FSub(FMul(a01, a12), FMul(a02, a11))},
          b04 \in {FSub(FMul(a01, a13), FMul(a03, a11))},
          b05 \in {FSub(FMul(a02, a13), FMul(a03, a12))},
          b06 \in {FSub(FMul(a20, a31), FMul(a21, a30))},
          b07 \in {FSub(FMul(a20, a32), FMul(a22, a30))},
          b08 \in {FSub(FMul(a20, a33), FMul(a23, a30))},
          b09 \in {FSub(FMul(a21, a32), FMul(a22, a31))},
          b10 \in {FSub(FMul(a21, a33), FMul(a23, a31))},
          b11 \in {FSub(FMul(a22, a33), FMul(a23, a32))} })

\* A failure path that returns null after resetting the receiver.
InvertFailedReset(d) == [ret |-> "null", data |-> Identity]

\* if (!det) return null: nothing has been written.
InvertFailed(d) == [ret |-> "null", data |-> d]

\* invert() is modelled on the data of the window, where no operation before
\* the division rounds, and on any other data whose det rounds to 0.
ExactInvert(d) == IF StorableAll(d) THEN TRUE ELSE FNot(InvertDeterminantDouble(d))

\* invert(): the minors, the determinant, the early return on !det, and the
\* adjugate times 1/det.
Invert(d) ==
  IF ~StorableAll(d) THEN
    (IF FNot(InvertDeterminantDouble(d)) THEN InvertFailed(d)
     ELSE [ret |-> "this", data |-> <<>>])
  ELSE
  LET a00 == D(d, 0)   a01 == D(d, 1)   a02 == D(d, 2)   a03 == D(d, 3)
      a10 == D(d, 4)   a11 == D(d, 5)   a12 == D(d, 6)   a13 == D(d, 7)
      a20 == D(d, 8)   a21 == D(d, 9)   a22 == D(d, 10)  a23 == D(d, 11)
      a30 == D(d, 12)  a31 == D(d, 13)  a32 == D(d, 14)  a33 == D(d, 15)
  IN  Only({
      LET b00 == b.b00  b01 == b.b01  b02 == b.b02  b03 == b.b03
          b04 == b.b04  b05 == b.b05  b06 == b.b06  b07 == b.b07
          b08 == b.b08  b09 == b.b09  b10 == b.b10  b11 == b.b11
      IN
      IF Not(det0) THEN InvertFailed(d)
      ELSE [ret |-> "this", data |-> <<
        Mul(Add(Sub(Mul(a11, b11), Mul(a12, b10)), Mul(a13, b09)), det),
        Mul(Sub(Sub(Mul(a02, b10), Mul(a01, b11)), Mul(a03, b09)), det),
        Mul(Add(Sub(Mul(a31, b05), Mul(a32, b04)), Mul(a33, b03)), det),
        Mul(Sub(Sub(Mul(a22, b04), Mul(a21, b05)), Mul(a23, b03)), det),
        Mul(Sub(Sub(Mul(a12, b08), Mul(a10, b11)), Mul(a13, b07)), det),
        Mul(Add(Sub(Mul(a00, b11), Mul(a02, b08)), Mul(a03, b07)), det),
        Mul(Sub(Sub(Mul(a32, b02), Mul(a30, b05)), Mul(a33, b01)), det),
        Mul(Add(Sub(Mul(a20, b05), Mul(a22, b02)), Mul(a23, b01)), det),
        Mul(Add(Sub(Mul(a10, b10), Mul(a11, b08)), Mul(a13, b06)), det),
        Mul(Sub(Sub(Mul(a01, b08), Mul(a00, b10)), Mul(a03, b06)), det),
        Mul(Add(Sub(Mul(a30, b04), Mul(a31, b02)), Mul(a33, b00)), det),
        Mul(Sub(Sub(Mul(a21, b02), Mul(a20, b04)), Mul(a23, b00)), det),
        Mul(Sub(Sub(Mul(a11, b07), Mul(a10, b09)), Mul(a12, b06)), det),
        Mul(Add(Sub(Mul(a00, b09), Mul(a01, b07)), Mul(a02, b06)), det),
        Mul(Sub(Sub(Mul(a31, b01), Mul(a30, b03)), Mul(a32, b00)), det),
        Mul(Add(Sub(Mul(a20, b03), Mul(a21, b01)), Mul(a22, b00)), det) >>]
      : b \in {InvertMinors(d)},
        det0 \in {InvertDeterminant(InvertMinors(d))},
        det \in {Div(One, InvertDeterminant(InvertMinors(d)))} })

\* determinant(): the expansion by b0..b9, a number.
Determinant(d) ==
  LET a00 == D(d, 0)   a01 == D(d, 1)   a02 == D(d, 2)   a03 == D(d, 3)
      a10 == D(d, 4)   a11 == D(d, 5)   a12 == D(d, 6)   a13 == D(d, 7)
      a20 == D(d, 8)   a21 == D(d, 9)   a22 == D(d, 10)  a23 == D(d, 11)
      a30 == D(d, 12)  a31 == D(d, 13)  a32 == D(d, 14)  a33 == D(d, 15)
      b0 == Sub(Mul(a00, a11), Mul(a01, a10))
      b1 == Sub(Mul(a00, a12), Mul(a02, a10))
      b2 == Sub(Mul(a01, a12), Mul(a02, a11))
      b3 == Sub(Mul(a20, a31), Mul(a21, a30))
      b4 == Sub(Mul(a20, a32), Mul(a22, a30))
      b5 == Sub(Mul(a21, a32), Mul(a22, a31))
      b6 == Add(Sub(Mul(a00, b5), Mul(a01, b4)), Mul(a02, b3))
      b7 == Add(Sub(Mul(a10, b5), Mul(a11, b4)), Mul(a12, b3))
      b8 == Add(Sub(Mul(a20, b2), Mul(a21, b1)), Mul(a22, b0))
      b9 == Add(Sub(Mul(a30, b2), Mul(a31, b1)), Mul(a32, b0))
  IN  Sub(Add(Sub(Mul(a13, b6), Mul(a03, b7)), Mul(a33, b8)), Mul(a23, b9))

\* Adjugate minors with b11 formed as a sum.
AdjointMinorsSum(d) ==
  [InvertMinors(d) EXCEPT !.b11 = Add(Mul(D(d, 10), D(d, 15)), Mul(D(d, 11), D(d, 14)))]

\* The twelve 2x2 minors b00..b11 that adjoint() forms.
AdjointMinors(d) ==
  LET a00 == D(d, 0)   a01 == D(d, 1)   a02 == D(d, 2)   a03 == D(d, 3)
      a10 == D(d, 4)   a11 == D(d, 5)   a12 == D(d, 6)   a13 == D(d, 7)
      a20 == D(d, 8)   a21 == D(d, 9)   a22 == D(d, 10)  a23 == D(d, 11)
      a30 == D(d, 12)  a31 == D(d, 13)  a32 == D(d, 14)  a33 == D(d, 15)
  IN  [b00 |-> Sub(Mul(a00, a11), Mul(a01, a10)),
       b01 |-> Sub(Mul(a00, a12), Mul(a02, a10)),
       b02 |-> Sub(Mul(a00, a13), Mul(a03, a10)),
       b03 |-> Sub(Mul(a01, a12), Mul(a02, a11)),
       b04 |-> Sub(Mul(a01, a13), Mul(a03, a11)),
       b05 |-> Sub(Mul(a02, a13), Mul(a03, a12)),
       b06 |-> Sub(Mul(a20, a31), Mul(a21, a30)),
       b07 |-> Sub(Mul(a20, a32), Mul(a22, a30)),
       b08 |-> Sub(Mul(a20, a33), Mul(a23, a30)),
       b09 |-> Sub(Mul(a21, a32), Mul(a22, a31)),
       b10 |-> Sub(Mul(a21, a33), Mul(a23, a31)),
       b11 |-> Sub(Mul(a22, a33), Mul(a23, a32))]

\* adjoint(): the minors, then all 16 elements; there is no return but
\* return this.
Adjoint(d) ==
  LET a00 == D(d, 0)   a01 == D(d, 1)   a02 == D(d, 2)   a03 == D(d, 3)
      a10 == D(d, 4)   a11 == D(d, 5)   a12 == D(d, 6)   a13 == D(d, 7)
      a20 == D(d, 8)   a21 == D(d, 9)   a22 == D(d, 10)  a23 == D(d, 11)
      a30 == D(d, 12)  a31 == D(d, 13)  a32 == D(d, 14)  a33 == D(d, 15)
  IN  Only({
      LET b00 == b.b00  b01 == b.b01  b02 == b.b02  b03 == b.b03
          b04 == b.b04  b05 == b.b05  b06 == b.b06  b07 == b.b07
          b08 == b.b08  b09 == b.b09  b10 == b.b10  b11 == b.b11
      IN  [ret |-> "this", data |-> <<
        Add(Sub(Mul(a11, b11), Mul(a12, b10)), Mul(a13, b09)),
        Sub(Sub(Mul(a02, b10), Mul(a01, b11)), Mul(a03, b09)),
        Add(Sub(Mul(a31, b05), Mul(a32, b04)), Mul(a33, b03)),
        Sub(Sub(Mul(a22, b04), Mul(a21, b05)), Mul(a23, b03)),
        Sub(Sub(Mul(a12, b08), Mul(a10, b11)), Mul(a13, b07)),
        Add(Sub(Mul(a00, b11), Mul(a02, b08)), Mul(a03, b07)),
        Sub(Sub(Mul(a32, b02), Mul(a30, b05)), Mul(a33, b01)),
        Add(Sub(Mul(a20, b05), Mul(a22, b02)), Mul(a23, b01)),
        Add(Sub(Mul(a10, b10), Mul(a11, b08)), Mul(a13, b06)),
        Sub(Sub(Mul(a01, b08), Mul(a00, b10)), Mul(a03, b06)),
        Add(Sub(Mul(a30, b04), Mul(a31, b02)), Mul(a33, b00)),
        Sub(Sub(Mul(a21, b02), Mul(a20, b04)), Mul(a23, b00)),
        Sub(Sub(Mul(a11, b07), Mul(a10, b09)), Mul(a12, b06)),
        Add(Sub(Mul(a00, b09), Mul(a01, b07)), Mul(a02, b06)),
        Sub(Sub(Mul(a31, b01), Mul(a30, b03)), Mul(a32, b00)),
        Add(Sub(Mul(a20, b03), Mul(a21, b01)), Mul(a22, b00)) >>]
      : b \in {AdjointMinors(d)} })

\* One element of multiply(): b0 * ar0 + b1 * ar1 + b2 * ar2 + b3 * ar3, for
\* the cached line b0..b3 of the argument and a row ar0..ar3 of the receiver.
MulLine(b0, b1, b2, b3, ar0, ar1, ar2, ar3) ==
  Add(Add(Add(Mul(b0, ar0), Mul(b1, ar1)), Mul(b2, ar2)), Mul(b3, ar3))

\* The four elements that multiply() writes from one line b0..b3 of the
\* argument.
MulLines(d, b0, b1, b2, b3) ==
  LET a00 == D(d, 0)   a01 == D(d, 1)   a02 == D(d, 2)   a03 == D(d, 3)
      a10 == D(d, 4)   a11 == D(d, 5)   a12 == D(d, 6)   a13 == D(d, 7)
      a20 == D(d, 8)   a21 == D(d, 9)   a22 == D(d, 10)  a23 == D(d, 11)
      a30 == D(d, 12)  a31 == D(d, 13)  a32 == D(d, 14)  a33 == D(d, 15)
  IN  <<MulLine(b0, b1, b2, b3, a00, a10, a20, a30),
        MulLine(b0, b1, b2, b3, a01, a11, a21, a31),
        MulLine(b0, b1, b2, b3, a02, a12, a22, a32),
        MulLine(b0, b1, b2, b3, a03, a13, a23, a33)>>

\* multiply(matrix): b is matrix.data, read four elements at a time.
Multiply(d, b) ==
  [ret |-> "this",
   data |-> MulLines(d, D(b, 0), D(b, 1), D(b, 2), D(b, 3))
            \o MulLines(d, D(b, 4), D(b, 5), D(b, 6), D(b, 7))
            \o MulLines(d, D(b, 8), D(b, 9), D(b, 10), D(b, 11))
            \o MulLines(d, D(b, 12), D(b, 13), D(b, 14), D(b, 15))]

\* A multiply(matrix) on the receiver itself that keeps no copy of the
\* receiver's elements: each line is computed from the lines written before
\* it.
MultiplySelfUncached(d) ==
  Only({ Only({ Only({
    [ret |-> "this",
     data |-> SubSeq(d3, 1, 12)
              \o MulLines(d3, D(d3, 12), D(d3, 13), D(d3, 14), D(d3, 15))]
    : d3 \in {SubSeq(d2, 1, 8) \o MulLines(d2, D(d2, 8), D(d2, 9), D(d2, 10), D(d2, 11))
                \o SubSeq(d2, 13, 16)} })
    : d2 \in {SubSeq(d1, 1, 4) \o MulLines(d1, D(d1, 4), D(d1, 5), D(d1, 6), D(d1, 7))
                \o SubSeq(d1, 9, 16)} })
    : d1 \in {MulLines(d, D(d, 0), D(d, 1), D(d, 2), D(d, 3)) \o SubSeq(d, 5, 16)} })

\* multiply(matrix) when matrix is the receiver: b is this.data, and each
\* line of b is read when the lines before it have been written.
MultiplySelf(d) ==
  Only({ Only({ Only({
    [ret |-> "this",
     data |-> SubSeq(d3, 1, 12)
              \o MulLines(d, D(d3, 12), D(d3, 13), D(d3, 14), D(d3, 15))]
    : d3 \in {SubSeq(d2, 1, 8) \o MulLines(d, D(d2, 8), D(d2, 9), D(d2, 10), D(d2, 11))
                \o SubSeq(d2, 13, 16)} })
    : d2 \in {SubSeq(d1, 1, 4) \o MulLines(d, D(d1, 4), D(d1, 5), D(d1, 6), D(d1, 7))
                \o SubSeq(d1, 9, 16)} })
    : d1 \in {MulLines(d, D(d, 0), D(d, 1), D(d, 2), D(d, 3)) \o SubSeq(d, 5, 16)} })

\* A translate() that leaves data[15] alone, as for an affine matrix.
TranslateAffine(d, v) ==
  LET x == v[1]  y == v[2]  z == v[3]
  IN  [ret |-> "this", data |-> SubSeq(d, 1, 12) \o <<
        Add(Add(Add(Mul(D(d, 0), x), Mul(D(d, 4), y)), Mul(D(d, 8), z)), D(d, 12)),
        Add(Add(Add(Mul(D(d, 1), x), Mul(D(d, 5), y)), Mul(D(d, 9), z)), D(d, 13)),
        Add(Add(Add(Mul(D(d, 2), x), Mul(D(d, 6), y)), Mul(D(d, 10), z)), D(d, 14)),
        D(d, 15) >>]

\* translate(vector): data[12..15] assigned in turn, each from elements that
\* the assignments before it have not touched.
Translate(d, v) ==
  LET x == v[1]  y == v[2]  z == v[3]
  IN  [ret |-> "this", data |-> SubSeq(d, 1, 12) \o <<
        Add(Add(Add(Mul(D(d, 0), x), Mul(D(d, 4), y)), Mul(D(d, 8), z)), D(d, 12)),
        Add(Add(Add(Mul(D(d, 1), x), Mul(D(d, 5), y)), Mul(D(d, 9), z)), D(d, 13)),
        Add(Add(Add(Mul(D(d, 2), x), Mul(D(d, 6), y)), Mul(D(d, 10), z)), D(d, 14)),
        Add(Add(Add(Mul(D(d, 3), x), Mul(D(d, 7), y)), Mul(D(d, 11), z)), D(d, 15)) >>]

\* scale(vector): the first twelve elements, four by four.
Scale(d, v) ==
  LET x == v[1]  y == v[2]  z == v[3]
  IN  [ret |-> "this", data |-> <<
        Mul(D(d, 0), x), Mul(D(d, 1), x), Mul(D(d, 2), x), Mul(D(d, 3), x),
        Mul(D(d, 4), y), Mul(D(d, 5), y), Mul(D(d, 6), y), Mul(D(d, 7), y),
        Mul(D(d, 8), z), Mul(D(d, 9), z), Mul(D(d, 10), z), Mul(D(d, 11), z),
        D(d, 12), D(d, 13), D(d, 14), D(d, 15) >>]

\* Math.sin and Math.cos at the angle k * pi / 2
Angles == 0..3
MathSin(rad) == R(CASE rad = 0 -> 0 [] rad = 1 -> 1 [] rad = 2 -> 0 [] rad = 3 -> -1)
MathCos(rad) == R(CASE rad = 0 -> 1 [] rad = 1 -> 0 [] rad = 2 -> -1 [] rad = 3 -> 0)

\* The nine elements b00..b22 of the rotation by rad about the unit axis
\* (x, y, z), as rotate() and fromRotation() both construct them.
RotationElements(rad, x0, y0, z0) ==
  LET s == MathSin(rad)
      c == MathCos(rad)
      t == Sub(One, c)
  IN  Only({
      [b00 |-> Add(Mul(Mul(x, x), t), c),
       b01 |-> Add(Mul(Mul(y, x), t), Mul(z, s)),
       b02 |-> Sub(Mul(Mul(z, x), t), Mul(y, s)),
       b10 |-> Sub(Mul(Mul(x, y), t), Mul(z, s)),
       b11 |-> Add(Mul(Mul(y, y), t), c),
       b12 |-> Add(Mul(Mul(z, y), t), Mul(x, s)),
       b20 |-> Add(Mul(Mul(x, z), t), Mul(y, s)),
       b21 |-> Sub(Mul(Mul(y, z), t), Mul(x, s)),
       b22 |-> Add(Mul(Mul(z, z), t), c)]
      : x \in {x0}, y \in {y0}, z \in {z0} })

\* a * p + b * q + c * r
Dot3(a, p, b, q, c, r) == Add(Add(Mul(a, p), Mul(b, q)), Mul(c, r))

\* The calls of Math.hypot(v) and of 1 / that length are modelled.
ExactAxis(v) ==
  IF ~ExactHypot(v[1], v[2], v[3]) THEN FALSE
  ELSE ExactReciprocal(MathHypot(v[1], v[2], v[3]))

\* A guard that catches only the zero vector.
DegenerateAxisZeroOnly(len) == Not(len)

\* len < mathf.EPSILON, the test of rotate() and of fromRotation()
DegenerateAxis(len) == Lt(len, EPSILON)

\* A rotate() that ends like fromRotation(), writing 0, 0, 0, 1.
RotateTailReset(d) == <<Zero, Zero, Zero, One>>

\* data[12..15] after rotate(): it assigns none of them.
RotateTail(d) == <<D(d, 12), D(d, 13), D(d, 14), D(d, 15)>>

\* rotate(rad, axis): the early return on a short axis, then the first three
\* columns of the receiver recombined.
Rotate(d, rad, axis) ==
  LET len0 == MathHypot(axis[1], axis[2], axis[3])
      len == Div(One, len0)
      x == Mul(axis[1], len)
      y == Mul(axis[2], len)
      z == Mul(axis[3], len)
      a00 == D(d, 0)   a01 == D(d, 1)   a02 == D(d, 2)   a03 == D(d, 3)
      a10 == D(d, 4)   a11 == D(d, 5)   a12 == D(d, 6)   a13 == D(d, 7)
      a20 == D(d, 8)   a21 == D(d, 9)   a22 == D(d, 10)  a23 == D(d, 11)
  IN  IF DegenerateAxis(len0) THEN [ret |-> "null", data |-> d]
      ELSE Only({ [ret |-> "this", data |-> <<
        Dot3(a00, b.b00, a10, b.b01, a20, b.b02),
        Dot3(a01, b.b00, a11, b.b01, a21, b.b02),
        Dot3(a02, b.b00, a12, b.b01, a22, b.b02),
        Dot3(a03, b.b00, a13, b.b01, a23, b.b02),
        Dot3(a00, b.b10, a10, b.b11, a20, b.b12),
        Dot3(a01, b.b10, a11, b.b11, a21, b.b12),
        Dot3(a02, b.b10, a12, b.b11, a22, b.b12),
        Dot3(a03, b.b10, a13, b.b11, a23, b.b12),
        Dot3(a00, b.b20, a10, b.b21, a20, b.b22),
        Dot3(a01, b.b20, a11, b.b21, a21, b.b22),
        Dot3(a02, b.b20, a12, b.b21, a22, b.b22),
        Dot3(a03, b.b20, a13, b.b21, a23, b.b22) >> \o RotateTail(d)]
        : b \in {RotationElements(rad, x, y, z)} })

\* fromRotation(rad, axis): the same early return, then all 16 elements.
FromRotation(d, rad, axis) ==
  LET len0 == MathHypot(axis[1], axis[2], axis[3])
      len == Div(One, len0)
      x == Mul(axis[1], len)
      y == Mul(axis[2], len)
      z == Mul(axis[3], len)
  IN  IF DegenerateAxis(len0) THEN [ret |-> "null", data |-> d]
      ELSE Only({ [ret |-> "this", data |-> <<
        b.b00, b.b01, b.b02, Zero,
        b.b10, b.b11, b.b12, Zero,
        b.b20, b.b21, b.b22, Zero,
        Zero, Zero, Zero, One >>]
        : b \in {RotationElements(rad, x, y, z)} })

\* fromTranslation(vector)
FromTranslation(d, v) ==
  [ret |-> "this", data |-> <<
     One, Zero, Zero, Zero,
     Zero, One, Zero, Zero,
     Zero, Zero, One, Zero,
     v[1], v[2], v[3], One >>]

\* fromXRotation(rad)
FromXRotation(d, rad) ==
  LET s == MathSin(rad)
      c == MathCos(rad)
  IN  [ret |-> "this", data |-> <<
        One, Zero, Zero, Zero,
        Zero, c, s, Zero,
        Zero, Neg(s), c, Zero,
        Zero, Zero, Zero, One >>]

\* A rotation about Y turning the other way.
FromYRotationReversed(d, rad) ==
  LET s == MathSin(rad)
      c == MathCos(rad)
  IN  [ret |-> "this", data |-> <<
        c, Zero, s, Zero,
        Zero, One, Zero, Zero,
        Neg(s), Zero, c, Zero,
        Zero, Zero, Zero, One >>]

\* fromYRotation(rad)
FromYRotation(d, rad) ==
  LET s == MathSin(rad)
      c == MathCos(rad)
  IN  [ret |-> "this", data |-> <<
        c, Zero, Neg(s), Zero,
        Zero, One, Zero, Zero,
        s, Zero, c, Zero,
        Zero, Zero, Zero, One >>]

\* fromZRotation(rad)
FromZRotation(d, rad) ==
  LET s == MathSin(rad)
      c == MathCos(rad)
  IN  [ret |-> "this", data |-> <<
        c, s, Zero, Zero,
        Neg(s), c, Zero, Zero,
        Zero, Zero, One, Zero,
        Zero, Zero, Zero, One >>]

\* A fromScaling() that assigns the diagonal alone and leaves the other
\* twelve elements as they were.
FromScalingDiagonal(d, v) ==
  [ret |-> "this",
   data |-> [d EXCEPT ![1] = v[1], ![6] = v[2], ![11] = v[3], ![16] = One]]

\* fromScaling(vector)
FromScaling(d, v) ==
  [ret |-> "this", data |-> <<
     v[1], Zero, Zero, Zero,
     Zero, v[2], Zero, Zero,
     Zero, Zero, v[3], Zero,
     Zero, Zero, Zero, One >>]

\* The literal p/q
Q(p, q) == Norm(p, q)

\* A fromRotationTranslationScale() that scales the rows of the rotation:
\* element i of each basis vector is multiplied by component i of s.
FromRotationTranslationScaleRows(d, q, v, s) ==
  LET x == q[1]  y == q[2]  z == q[3]  w == q[4]
      x2 == Add(x, x)
      y2 == Add(y, y)
      z2 == Add(z, z)
      xx == Mul(x, x2)
      xy == Mul(x, y2)
      xz == Mul(x, z2)
      yy == Mul(y, y2)
      yz == Mul(y, z2)
      zz == Mul(z, z2)
      wx == Mul(w, x2)
      wy == Mul(w, y2)
      wz == Mul(w, z2)
      sx == s[1]
      sy == s[2]
      sz == s[3]
  IN  [ret |-> "this", data |-> <<
        Mul(Sub(One, Add(yy, zz)), sx), Mul(Add(xy, wz), sy), Mul(Sub(xz, wy), sz), Zero,
        Mul(Sub(xy, wz), sx), Mul(Sub(One, Add(xx, zz)), sy), Mul(Add(yz, wx), sz), Zero,
        Mul(Add(xz, wy), sx), Mul(Sub(yz, wx), sy), Mul(Sub(One, Add(xx, yy)), sz), Zero,
        v[1], v[2], v[3], One >>]

\* fromRotationTranslationScale(rotation, translation, scaling): q, v and s
\* are the three arguments' data.
FromRotationTranslationScale(d, q, v, s) ==
  LET x == q[1]  y == q[2]  z == q[3]  w == q[4]
      x2 == Add(x, x)
      y2 == Add(y, y)
      z2 == Add(z, z)
      xx == Mul(x, x2)
      xy == Mul(x, y2)
      xz == Mul(x, z2)
      yy == Mul(y, y2)
      yz == Mul(y, z2)
      zz == Mul(z, z2)
      wx == Mul(w, x2)
      wy == Mul(w, y2)
      wz == Mul(w, z2)
      sx == s[1]
      sy == s[2]
      sz == s[3]
  IN  [ret |-> "this", data |-> <<
        Mul(Sub(One, Add(yy, zz)), sx), Mul(Add(xy, wz), sx), Mul(Sub(xz, wy), sx), Zero,
        Mul(Sub(xy, wz), sy), Mul(Sub(One, Add(xx, zz)), sy), Mul(Add(yz, wx), sy), Zero,
        Mul(Add(xz, wy), sz), Mul(Sub(yz, wx), sz), Mul(Sub(One, Add(xx, yy)), sz), Zero,
        v[1], v[2], v[3], One >>]

\* A fromRotationTranslation() that writes the rotation transposed, the
\* rotation of the conjugate quaternion.
FromRotationTranslationTransposed(d, q, v) ==
  LET x == q[1]  y == q[2]  z == q[3]  w == q[4]
      x2 == Add(x, x)
      y2 == Add(y, y)
      z2 == Add(z, z)
      xx == Mul(x, x2)
      xy == Mul(x, y2)
      xz == Mul(x, z2)
      yy == Mul(y, y2)
      yz == Mul(y, z2)
      zz == Mul(z, z2)
      wx == Mul(w, x2)
      wy == Mul(w, y2)
      wz == Mul(w, z2)
  IN  [ret |-> "this", data |-> <<
        Sub(One, Add(yy, zz)), Sub(xy, wz), Add(xz, wy), Zero,
        Add(xy, wz), Sub(One, Add(xx, zz)), Sub(yz, wx), Zero,
        Sub(xz, wy), Add(yz, wx), Sub(One, Add(xx, yy)), Zero,
        v[1], v[2], v[3], One >>]

\* fromRotationTranslation(rotation, translation)
FromRotationTranslation(d, q, v) ==
  LET x == q[1]  y == q[2]  z == q[3]  w == q[4]
      x2 == Add(x, x)
      y2 == Add(y, y)
      z2 == Add(z, z)
      xx == Mul(x, x2)
      xy == Mul(x, y2)
      xz == Mul(x, z2)
      yy == Mul(y, y2)
      yz == Mul(y, z2)
      zz == Mul(z, z2)
      wx == Mul(w, x2)
      wy == Mul(w, y2)
      wz == Mul(w, z2)
  IN  [ret |-> "this", data |-> <<
        Sub(One, Add(yy, zz)), Add(xy, wz), Sub(xz, wy), Zero,
        Sub(xy, wz), Sub(One, Add(xx, zz)), Add(yz, wx), Zero,
        Add(xz, wy), Sub(yz, wx), Sub(One, Add(xx, yy)), Zero,
        v[1], v[2], v[3], One >>]

\* A pivot taken through the rotation alone: the translation is formed with
\* o rotated by q, not with o rotated and scaled.
FromRotationTranslationScaleOriginUnscaled(d, q, v, s, o) ==
  LET b == FromRotationTranslationScale(d, q, v, s).data
      r == FromRotationTranslation(d, q, v).data
      ox == o[1]  oy == o[2]  oz == o[3]
  IN  [ret |-> "this", data |-> SubSeq(b, 1, 12) \o <<
        Sub(Add(v[1], ox), Add(Add(Mul(r[1], ox), Mul(r[5], oy)), Mul(r[9], oz))),
        Sub(Add(v[2], oy), Add(Add(Mul(r[2], ox), Mul(r[6], oy)), Mul(r[10], oz))),
        Sub(Add(v[3], oz), Add(Add(Mul(r[3], ox), Mul(r[7], oy)), Mul(r[11], oz))),
        One >>]

\* data[12..14] of fromRotationTranslationScaleOrigin(): b is out0, out1,
\* out2, out4, out5, out6, out8, out9, out10, the block just computed.
OriginShift(b, v, o) ==
  LET ox == o[1]  oy == o[2]  oz == o[3]
      out0 == b[1]  out1 == b[2]  out2 == b[3]
      out4 == b[4]  out5 == b[5]  out6 == b[6]
      out8 == b[7]  out9 == b[8]  out10 == b[9]
  IN  <<Sub(Add(v[1], ox), Add(Add(Mul(out0, ox), Mul(out4, oy)), Mul(out8, oz))),
        Sub(Add(v[2], oy), Add(Add(Mul(out1, ox), Mul(out5, oy)), Mul(out9, oz))),
        Sub(Add(v[3], oz), Add(Add(Mul(out2, ox), Mul(out6, oy)), Mul(out10, oz)))>>

\* fromRotationTranslationScaleOrigin(rotation, translation, scaling, origin)
FromRotationTranslationScaleOrigin(d, q, v, s, o) ==
  LET x == q[1]  y == q[2]  z == q[3]  w == q[4]
      x2 == Add(x, x)
      y2 == Add(y, y)
      z2 == Add(z, z)
      xx == Mul(x, x2)
      xy == Mul(x, y2)
      xz == Mul(x, z2)
      yy == Mul(y, y2)
      yz == Mul(y, z2)
      zz == Mul(z, z2)
      wx == Mul(w, x2)
      wy == Mul(w, y2)
      wz == Mul(w, z2)
      sx == s[1]
      sy == s[2]
      sz == s[3]
      out0 == Mul(Sub(One, Add(yy, zz)), sx)
      out1 == Mul(Add(xy, wz), sx)
      out2 == Mul(Sub(xz, wy), sx)
      out4 == Mul(Sub(xy, wz), sy)
      out5 == Mul(Sub(One, Add(xx, zz)), sy)
      out6 == Mul(Add(yz, wx), sy)
      out8 == Mul(Add(xz, wy), sz)
      out9 == Mul(Sub(yz, wx), sz)
      out10 == Mul(Sub(One, Add(xx, yy)), sz)
  IN  Only({ [ret |-> "this", data |-> <<
        out0, out1, out2, Zero,
        out4, out5, out6, Zero,
        out8, out9, out10, Zero,
        t[1], t[2], t[3], One >>]
        : t \in {OriginShift(<<out0, out1, out2, out4, out5, out6, out8, out9, out10>>,
                              v, o)} })

\* fromQuat(rotation)
FromQuat(d, q) ==
  LET x == q[1]  y == q[2]  z == q[3]  w == q[4]
      x2 == Add(x, x)
      y2 == Add(y, y)
      z2 == Add(z, z)
      xx == Mul(x, x2)
      yx == Mul(y, x2)
      yy == Mul(y, y2)
      zx == Mul(z, x2)
      zy == Mul(z, y2)
      zz == Mul(z, z2)
      wx == Mul(w, x2)
      wy == Mul(w, y2)
      wz == Mul(w, z2)
  IN  [ret |-> "this", data |-> <<
        Sub(Sub(One, yy), zz), Add(yx, wz), Sub(zx, wy), Zero,
        Sub(yx, wz), Sub(Sub(One, xx), zz), Add(zy, wx), Zero,
        Add(zx, wy), Sub(zy, wx), Sub(Sub(One, xx), yy), Zero,
        Zero, Zero, Zero, One >>]

\* getTranslation(): a new vec3 of data[12], data[13], data[14].
GetTranslation(d) == <<D(d, 12), D(d, 13), D(d, 14)>>

\* The calls of Math.hypot that getScaling(), getRotation() and decompose()
\* make on d are modelled.
ExactScaling(d) ==
  /\ ExactHypot(D(d, 0), D(d, 1), D(d, 2))
  /\ ExactHypot(D(d, 4), D(d, 5), D(d, 6))
  /\ ExactHypot(D(d, 8), D(d, 9), D(d, 10))

\* A scale read off the diagonal.
GetScalingDiagonal(d) == <<D(d, 0), D(d, 5), D(d, 10)>>

\* getScaling(): a new vec3 of the three hypots.
GetScaling(d) ==
  LET m11 == D(d, 0)  m12 == D(d, 1)  m13 == D(d, 2)
      m21 == D(d, 4)  m22 == D(d, 5)  m23 == D(d, 6)
      m31 == D(d, 8)  m32 == D(d, 9)  m33 == D(d, 10)
  IN  <<MathHypot(m11, m12, m13), MathHypot(m21, m22, m23), MathHypot(m31, m32, m33)>>

\* The argument of the square root of the last branch, whatever the trace and
\* the diagonal are.
RootArgumentLast(sm) ==
  LET sm11 == sm[1]  sm22 == sm[5]  sm33 == sm[9]
  IN  Sub(Sub(Add(One, sm33), sm11), sm22)

\* The argument of the Math.sqrt that getRotation() and decompose() reach on
\* the scaled elements sm (a sequence sm11, sm12, ..., sm33).
RootArgument(sm) ==
  LET sm11 == sm[1]  sm22 == sm[5]  sm33 == sm[9]
      trace == Add(Add(sm11, sm22), sm33)
  IN  IF Gt(trace, Zero) THEN Add(trace, One)
      ELSE IF Gt(sm11, sm22) /\ Gt(sm11, sm33) THEN Sub(Sub(Add(One, sm11), sm22), sm33)
      ELSE IF Gt(sm22, sm33) THEN Sub(Sub(Add(One, sm22), sm11), sm33)
      ELSE Sub(Sub(Add(One, sm33), sm11), sm22)

\* A getRotation() that divides nothing and gives the identity quaternion.
GetRotationIdentity(d) == <<Zero, Zero, Zero, One>>

\* getRotation(): the elements divided by this.getScaling(), then the four
\* branches; a new quat (x, y, z, w).
GetRotation(d) ==
  LET scaling == GetScaling(d)
      is1 == Div(One, scaling[1])
      is2 == Div(One, scaling[2])
      is3 == Div(One, scaling[3])
  IN  Only({
      LET sm11 == sm[1]  sm12 == sm[2]  sm13 == sm[3]
          sm21 == sm[4]  sm22 == sm[5]  sm23 == sm[6]
          sm31 == sm[7]  sm32 == sm[8]  sm33 == sm[9]
          trace == Add(Add(sm11, sm22), sm33)
      IN
      IF Gt(trace, Zero) THEN
        Only({ <<Div(Sub(sm23, sm32), S), Div(Sub(sm31, sm13), S),
                   Div(Sub(sm12, sm21), S), Mul(Q(1, 4), S)>>
               : S \in {Mul(MathSqrt(Add(trace, One)), R(2))} })
      ELSE IF Gt(sm11, sm22) /\ Gt(sm11, sm33) THEN
        Only({ <<Mul(Q(1, 4), S), Div(Add(sm12, sm21), S),
                   Div(Add(sm31, sm13), S), Div(Sub(sm23, sm32), S)>>
               : S \in {Mul(MathSqrt(Sub(Sub(Add(One, sm11), sm22), sm33)), R(2))} })
      ELSE IF Gt(sm22, sm33) THEN
        Only({ <<Div(Add(sm12, sm21), S), Mul(Q(1, 4), S),
                   Div(Add(sm23, sm32), S), Div(Sub(sm31, sm13), S)>>
               : S \in {Mul(MathSqrt(Sub(Sub(Add(One, sm22), sm11), sm33)), R(2))} })
      ELSE
        Only({ <<Div(Add(sm31, sm13), S), Div(Add(sm23, sm32), S),
                   Mul(Q(1, 4), S), Div(Sub(sm12, sm21), S)>>
               : S \in {Mul(MathSqrt(Sub(Sub(Add(One, sm33), sm11), sm22)), R(2))} })
      : sm \in {<<Mul(D(d, 0), is1), Mul(D(d, 1), is2), Mul(D(d, 2), is3),
                  Mul(D(d, 4), is1), Mul(D(d, 5), is2), Mul(D(d, 6), is3),
                  Mul(D(d, 8), is1), Mul(D(d, 9), is2), Mul(D(d, 10), is3)>>} })

\* A translation read with a repeated index.
DecomposeTranslationSlip(d) == <<D(d, 12), D(d, 13), D(d, 13)>>

\* decompose(): out_t[0..2] = mat[12], mat[13], mat[14]
DecomposeTranslation(d) == <<D(d, 12), D(d, 13), D(d, 14)>>

\* A scale measured along the other direction of the 3x3 block.
DecomposeScalingAcross(d) ==
  <<MathHypot(D(d, 0), D(d, 4), D(d, 8)), MathHypot(D(d, 1), D(d, 5), D(d, 9)),
    MathHypot(D(d, 2), D(d, 6), D(d, 10))>>

\* decompose(): out_s[0..2] = the hypots of (m11, m12, m13), (m21, m22, m23)
\* and (m31, m32, m33)
DecomposeScaling(d) ==
  LET m11 == D(d, 0)  m12 == D(d, 1)  m13 == D(d, 2)
      m21 == D(d, 4)  m22 == D(d, 5)  m23 == D(d, 6)
      m31 == D(d, 8)  m32 == D(d, 9)  m33 == D(d, 10)
  IN  <<MathHypot(m11, m12, m13), MathHypot(m21, m22, m23), MathHypot(m31, m32, m33)>>

\* decompose(q, t, s): what it writes to its three arguments.
Decompose(d) ==
  LET out_t == DecomposeTranslation(d)
      m11 == D(d, 0)  m12 == D(d, 1)  m13 == D(d, 2)
      m21 == D(d, 4)  m22 == D(d, 5)  m23 == D(d, 6)
      m31 == D(d, 8)  m32 == D(d, 9)  m33 == D(d, 10)
      out_s == DecomposeScaling(d)
      is1 == Div(One, out_s[1])
      is2 == Div(One, out_s[2])
      is3 == Div(One, out_s[3])
  IN  Only({
      LET sm11 == sm[1]  sm12 == sm[2]  sm13 == sm[3]
          sm21 == sm[4]  sm22 == sm[5]  sm23 == sm[6]
          sm31 == sm[7]  sm32 == sm[8]  sm33 == sm[9]
          trace == Add(Add(sm11, sm22), sm33)
          out_r ==
        IF Gt(trace, Zero) THEN
          Only({ <<Div(Sub(sm23, sm32), S), Div(Sub(sm31, sm13), S),
                     Div(Sub(sm12, sm21), S), Mul(Q(1, 4), S)>>
                 : S \in {Mul(MathSqrt(Add(trace, One)), R(2))} })
        ELSE IF Gt(sm11, sm22) /\ Gt(sm11, sm33) THEN
          Only({ <<Mul(Q(1, 4), S), Div(Add(sm12, sm21), S),
                     Div(Add(sm31, sm13), S), Div(Sub(sm23, sm32), S)>>
                 : S \in {Mul(MathSqrt(Sub(Sub(Add(One, sm11), sm22), sm33)), R(2))} })
        ELSE IF Gt(sm22, sm33) THEN
          Only({ <<Div(Add(sm12, sm21), S), Mul(Q(1, 4), S),
                     Div(Add(sm23, sm32), S), Div(Sub(sm31, sm13), S)>>
                 : S \in {Mul(MathSqrt(Sub(Sub(Add(One, sm22), sm11), sm33)), R(2))} })
        ELSE
          Only({ <<Div(Add(sm31, sm13), S), Div(Add(sm23, sm32), S),
                     Mul(Q(1, 4), S), Div(Sub(sm12, sm21), S)>>
                 : S \in {Mul(MathSqrt(Sub(Sub(Add(One, sm33), sm11), sm22)), R(2))} })
      IN  [ret |-> "this", data |-> d, q |-> out_r, t |-> out_t, s |-> out_s]
      : sm \in {<<Mul(m11, is1), Mul(m12, is2), Mul(m13, is3),
                  Mul(m21, is1), Mul(m22, is2), Mul(m23, is3),
                  Mul(m31, is1), Mul(m32, is2), Mul(m33, is3)>>} })

\* The scaled elements sm11..sm33 of getRotation() and decompose(), for the
\* guard on their Math.sqrt.
ScaledElements(d) ==
  LET sc == GetScaling(d)
      is == <<Div(One, sc[1]), Div(One, sc[2]), Div(One, sc[3])>>
  IN  <<Mul(D(d, 0), is[1]), Mul(D(d, 1), is[2]), Mul(D(d, 2), is[3]),
        Mul(D(d, 4), is[1]), Mul(D(d, 5), is[2]), Mul(D(d, 6), is[3]),
        Mul(D(d, 8), is[1]), Mul(D(d, 9), is[2]), Mul(D(d, 10), is[3])>>

\* The calls of Math.hypot and Math.sqrt that getRotation() and decompose()
\* make on d are modelled.
ExactRotation(d) ==
  IF ~ExactScaling(d) THEN FALSE
  ELSE IF \E i \in 1..3 : ~ExactReciprocal(GetScaling(d)[i]) THEN FALSE
  ELSE ExactSqrt(RootArgument(ScaledElements(d)))

\* identity(): this.data.set(mat4._identity)
SetIdentity(d) == [ret |-> "this", data |-> Identity]

\* len = Math.hypot(v); if (!len) v = 0 else v *= 1 / len
NormalizeOrZero(v) ==
  Only({ IF Not(len) THEN <<Zero, Zero, Zero>>
         ELSE <<Mul(v[1], Div(One, len)), Mul(v[2], Div(One, len)), Mul(v[3], Div(One, len))>>
         : len \in {MathHypot(v[1], v[2], v[3])} })

\* v1 x v2 as lookAt() writes it out for x = up x z and y = z x x
Cross(v1, v2) ==
  <<Sub(Mul(v1[2], v2[3]), Mul(v1[3], v2[2])),
    Sub(Mul(v1[3], v2[1]), Mul(v1[1], v2[3])),
    Sub(Mul(v1[1], v2[2]), Mul(v1[2], v2[1]))>>

\* The camera basis of lookAt(): zd = eye - center, z = zd / |zd|,
\* xc = up x z, x = xc normalized or zero, yc = z x x, y likewise.
LookAtBasis(eye, center, up) ==
  LET zd == <<Sub(eye[1], center[1]), Sub(eye[2], center[2]), Sub(eye[3], center[3])>>
      len == Div(One, MathHypot(zd[1], zd[2], zd[3]))
  IN  Only({ Only({ Only({ Only({
        [zd |-> zd, z |-> z, xc |-> xc, x |-> x, yc |-> yc, y |-> NormalizeOrZero(yc)]
        : yc \in {Cross(z, x)} })
        : x \in {NormalizeOrZero(xc)} })
        : xc \in {Cross(up, z)} })
        : z \in {<<Mul(zd[1], len), Mul(zd[2], len), Mul(zd[3], len)>>} })

\* A test that leaves the z axis out.
CoincidentXY(eye, center) ==
  /\ Lt(MathAbs(Sub(eye[1], center[1])), EPSILON)
  /\ Lt(MathAbs(Sub(eye[2], center[2])), EPSILON)

\* eye and center are within EPSILON of each other on all three axes.
Coincident(eye, center) ==
  /\ Lt(MathAbs(Sub(eye[1], center[1])), EPSILON)
  /\ Lt(MathAbs(Sub(eye[2], center[2])), EPSILON)
  /\ Lt(MathAbs(Sub(eye[3], center[3])), EPSILON)

\* The calls of Math.hypot that lookAt(eye, center, up) makes are modelled.
ExactLookAt(eye, center, up) ==
  IF Coincident(eye, center) THEN TRUE
  ELSE \A b \in {LookAtBasis(eye, center, up)} :
         IF ~ExactAxis(b.zd) THEN FALSE
         ELSE IF ~ExactAxis(b.xc) THEN FALSE
         ELSE ExactAxis(b.yc)

\* lookAt(eye, center, up): this.identity() when eye and center coincide,
\* else the view matrix.  branch names the path taken.
LookAt(d, eye, center, up) ==
  IF Coincident(eye, center)
  THEN [ret |-> "this", data |-> SetIdentity(d).data, branch |-> "identity"]
  ELSE Only({
      LET x0 == b.x[1]  x1 == b.x[2]  x2 == b.x[3]
          y0 == b.y[1]  y1 == b.y[2]  y2 == b.y[3]
          z0 == b.z[1]  z1 == b.z[2]  z2 == b.z[3]
          eyex == eye[1]  eyey == eye[2]  eyez == eye[3]
      IN  [ret |-> "this", branch |-> "view", data |-> <<
        x0, y0, z0, Zero,
        x1, y1, z1, Zero,
        x2, y2, z2, Zero,
        Neg(Dot3(x0, eyex, x1, eyey, x2, eyez)),
        Neg(Dot3(y0, eyex, y1, eyey, y2, eyez)),
        Neg(Dot3(z0, eyex, z1, eyey, z2, eyez)),
        One >>]
      : b \in {LookAtBasis(eye, center, up)} })

\* len = v . v; if (len > 0) { len = 1 / Math.sqrt(len); v *= len }
UnitOrSame(v) ==
  Only({ IF Gt(len, Zero)
         THEN Only({ <<Mul(v[1], k), Mul(v[2], k), Mul(v[3], k)>>
                     : k \in {Div(One, MathSqrt(len))} })
         ELSE v
         : len \in {SumSq(v[1], v[2], v[3])} })

\* The calls of Math.sqrt and of 1 / that root on v . v are modelled: the
\* components of v are k / d with |k| and d at most 128, so that the
\* rational model holds their squares, and the root and its reciprocal are
\* exact.
ExactUnit(v) ==
  IF \E i \in 1..3 : AbsI(v[i][1]) > 128 \/ v[i][2] > 128 \/ v[i][2] = 0 THEN FALSE
  ELSE \A len \in {SumSq(v[1], v[2], v[3])} :
         IF ~Gt(len, Zero) THEN TRUE
         ELSE IF ~ExactSqrt(len) THEN FALSE
         ELSE ExactReciprocal(MathSqrt(len))

\* The calls of Math.sqrt that targetTo(eye, center, up) makes are modelled.
ExactTargetTo(eye, center, up) ==
  \A zd \in {<<Sub(eye[1], center[1]), Sub(eye[2], center[2]), Sub(eye[3], center[3])>>} :
    IF ~ExactUnit(zd) THEN FALSE
    ELSE ExactUnit(Cross(up, UnitOrSame(zd)))

\* targetTo(eye, center, up)
TargetTo(d, eye, center, up) ==
  Only({ Only({
    [ret |-> "this", data |-> <<
      x[1], x[2], x[3], Zero,
      Sub(Mul(z[2], x[3]), Mul(z[3], x[2])),
      Sub(Mul(z[3], x[1]), Mul(z[1], x[3])),
      Sub(Mul(z[1], x[2]), Mul(z[2], x[1])), Zero,
      z[1], z[2], z[3], Zero,
      eye[1], eye[2], eye[3], One >>]
    : x \in {UnitOrSame(Cross(up, z))} })
    : z \in {UnitOrSame(<<Sub(eye[1], center[1]), Sub(eye[2], center[2]),
                           Sub(eye[3], center[3])>>)} })

\* A constructor that keeps the array it is given as its data.
CloneShared(d) == <<"same">>

\* clone(): new mat4(this.data), and the constructor makes the new matrix a
\* Float32Array of its own from the elements it is given.
Clone(d) == <<"own", d>>

\* copy(a): this.data.set(a.data); a is the data of the argument.
Copy(d, a) == [ret |-> "this", data |-> a]

\* Math.tan(fovy / 2) for the three fields of view of Fovs: pi/2,
\* 2 atan(1/2) and 2 atan 2.
Fovs == 0..2
MathTanHalf(fovy) == CASE fovy = 0 -> One [] fovy = 1 -> Q(1, 2) [] fovy = 2 -> R(2)

\* A test that takes every number, Infinity included, for a far plane.
FarIsNumber(far) == far[1] = "number"

\* A far argument is <<kind, value>>: kind is "null", "undefined" or
\* "number", value the number it is used as.
FarValue(far) == far[2]

\* far != null && far !== Infinity
FarIsFinitePlane(far) == far[1] = "number" /\ FarValue(far) # Infinity

\* The reciprocals 1 / Math.tan(fovy / 2) and 1 / (near - far) are modelled.
ExactPerspective(fovy, near, far) ==
  IF ~ExactReciprocal(MathTanHalf(fovy)) THEN FALSE
  ELSE IF FarIsFinitePlane(far) THEN ExactReciprocal(Sub(near, FarValue(far)))
  ELSE TRUE

\* perspectiveNO(fovy, aspect, near, far)
PerspectiveNO(d, fovy, aspect, near, far) ==
  LET f == Div(One, MathTanHalf(fovy))
      nf == Div(One, Sub(near, FarValue(far)))
      d10 == IF FarIsFinitePlane(far) THEN Mul(Add(FarValue(far), near), nf) ELSE R(-1)
      d14 == IF FarIsFinitePlane(far) THEN Mul(Mul(Mul(R(2), FarValue(far)), near), nf)
             ELSE Mul(R(-2), near)
  IN  [ret |-> "this", branch |-> IF FarIsFinitePlane(far) THEN "far" ELSE "infinite",
       data |-> <<
        Div(f, aspect), Zero, Zero, Zero,
        Zero, f, Zero, Zero,
        Zero, Zero, d10, R(-1),
        Zero, Zero, d14, Zero >>]

\* perspectiveZO(fovy, aspect, near, far): returns the data array, not this.
PerspectiveZO(d, fovy, aspect, near, far) ==
  LET f == Div(One, MathTanHalf(fovy))
      nf == Div(One, Sub(near, FarValue(far)))
      d10 == IF FarIsFinitePlane(far) THEN Mul(FarValue(far), nf) ELSE R(-1)
      d14 == IF FarIsFinitePlane(far) THEN Mul(Mul(FarValue(far), near), nf)
             ELSE Neg(near)
  IN  [ret |-> "data", branch |-> IF FarIsFinitePlane(far) THEN "far" ELSE "infinite",
       data |-> <<
        Div(f, aspect), Zero, Zero, Zero,
        Zero, f, Zero, Zero,
        Zero, Zero, d10, R(-1),
        Zero, Zero, d14, Zero >>]

\* add(matrix): b is matrix.data.
Mat4Add(d, b) == [ret |-> "this", data |-> [i \in 1..16 |-> Add(d[i], b[i])]]

\* subtract(matrix): b is matrix.data; returns the data array, not this.
Subtract(d, b) == [ret |-> "data", data |-> [i \in 1..16 |-> Sub(d[i], b[i])]]

\* multiplyScalar(s)
MultiplyScalar(d, s) == [ret |-> "this", data |-> [i \in 1..16 |-> Mul(d[i], s)]]

\* ---------------------------------------------------- vec3, quat and mathf
\* A vec3 is held as <<x, y, z>> and a quat as <<x, y, z, w>>.

\* vec3.cross(vector) of the class vec3: a is this, b is vector; the three
\* components that this.set() is given.
vec3_cross(a, b) ==
  <<Sub(Mul(a[2], b[3]), Mul(a[3], b[2])),
    Sub(Mul(a[3], b[1]), Mul(a[1], b[3])),
    Sub(Mul(a[1], b[2]), Mul(a[2], b[3]))>>

\* vec3CrossBy(v, left, right), the first of the two in vec3.ts: what v holds
\* afterwards.
vec3CrossBy(left, right) ==
  <<Sub(Mul(left[2], right[3]), Mul(left[3], right[2])),
    Sub(Mul(left[3], right[1]), Mul(left[1], right[3])),
    Sub(Mul(left[1], right[2]), Mul(left[2], right[1]))>>

\* vec3Cross(left, right), the first of the two in vec3.ts
vec3Cross(left, right) ==
  <<Sub(Mul(left[2], right[3]), Mul(left[3], right[2])),
    Sub(Mul(left[3], right[1]), Mul(left[1], right[3])),
    Sub(Mul(left[1], right[2]), Mul(left[2], right[1]))>>

\* vec3CrossBy(left, right), the second in vec3.ts: what left holds
\* afterwards.
vec3CrossBy_2(left, right) ==
  <<Sub(Mul(left[2], right[3]), Mul(left[3], right[2])),
    Sub(Mul(left[3], right[1]), Mul(left[1], right[3])),
    Sub(Mul(left[1], right[2]), Mul(left[2], right[3]))>>

\* vec3Cross(left, right), the second in vec3.ts
vec3Cross_2(left, right) ==
  <<Sub(Mul(left[2], right[3]), Mul(left[3], right[2])),
    Sub(Mul(left[3], right[1]), Mul(left[1], right[3])),
    Sub(Mul(left[1], right[2]), Mul(left[2], right[3]))>>

\* a <= b for two doubles
FLessEq(a, b) == DoublePlus(a, <<-b[1], b[2], b[3]>>)[1] <= 0

\* A moveTowards() that always takes a whole step, past the target too.
moveTowardsPast(current, target, maxDelta) ==
  Only({ FAdd(current, <<difference[1] * maxDelta[1], maxDelta[2], maxDelta[3]>>)
         : difference \in {FSub(target, current)} })

\* mathf.moveTowards(current, target, maxDelta), on doubles: the sum is
\* rounded; Math.sign(difference) * maxDelta is maxDelta or its opposite.
moveTowards(current, target, maxDelta) ==
  Only({ IF FLessEq(<<AbsI(difference[1]), difference[2], difference[3]>>, maxDelta)
         THEN target
         ELSE FAdd(current, <<difference[1] * maxDelta[1], maxDelta[2], maxDelta[3]>>)
         : difference \in {FSub(target, current)} })

\* The sum of the squares of the numbers of t
RECURSIVE SumSquares(_)
SumSquares(t) ==
  IF t = <<>> THEN Zero ELSE Add(Mul(Head(t), Head(t)), SumSquares(Tail(t)))

\* mat3Frob(m), the first version: Math.hypot of the nine elements.  A mat3
\* is held as a = <<m00, m01, m02, m10, m11, m12, m20, m21, m22>>.
mat3Frob(a) ==
  MathSqrt(SumSquares(<<a[1], a[2], a[3], a[4], a[5], a[6], a[7], a[8], a[9]>>))

\* mat3Frob(m), the second version: Math.sqrt of the sum of nine squares, the
\* sixth of which is m.m22 ** 2.
mat3Frob_2(a) ==
  MathSqrt(SumSquares(<<a[1], a[2], a[3], a[4], a[5], a[9], a[7], a[8], a[9]>>))

\* vec3TransformMat4(out, v, m): w as first computed, for the vector v and
\* the matrix a = <<m00, m01, m02, m03, m10, ..., m33>>
TransformW(v, a) ==
  Add(Add(Add(Mul(a[4], v[1]), Mul(a[8], v[2])), Mul(a[12], v[3])), a[16])

\* vec3TransformMat4(out, v, m): what out holds afterwards.  w is replaced by
\* 1.0 / w, or by 1.0 when it is 0, and the three sums are divided by it.
vec3TransformMat4(v, a) ==
  LET vx == v[1]  vy == v[2]  vz == v[3]
      w0 == TransformW(v, a)
      w == IF w0 # Zero THEN Div(One, w0) ELSE One
  IN  <<Div(Add(Add(Add(Mul(a[1], vx), Mul(a[5], vy)), Mul(a[9], vz)), a[13]), w),
        Div(Add(Add(Add(Mul(a[2], vx), Mul(a[6], vy)), Mul(a[10], vz)), a[14]), w),
        Div(Add(Add(Add(Mul(a[3], vx), Mul(a[7], vy)), Mul(a[11], vz)), a[15]), w)>>

\* A quaternion product with the operands in the other order: right * left.
quatMulToReversed(left, right) ==
  LET ax == right[1]  ay == right[2]  az == right[3]  aw == right[4]
      bx == left[1]   by == left[2]   bz == left[3]   bw == left[4]
  IN  <<Sub(Add(Add(Mul(ax, bw), Mul(aw, bx)), Mul(ay, bz)), Mul(az, by)),
        Sub(Add(Add(Mul(ay, bw), Mul(aw, by)), Mul(az, bx)), Mul(ax, bz)),
        Sub(Add(Add(Mul(az, bw), Mul(aw, bz)), Mul(ax, by)), Mul(ay, bx)),
        Sub(Sub(Sub(Mul(aw, bw), Mul(ax, bx)), Mul(ay, by)), Mul(az, bz))>>

\* quatMulTo(left, right): what left holds afterwards, and is returned.
quatMulTo(left, right) ==
  LET ax == left[1]   ay == left[2]   az == left[3]   aw == left[4]
      bx == right[1]  by == right[2]  bz == right[3]  bw == right[4]
  IN  <<Sub(Add(Add(Mul(ax, bw), Mul(aw, bx)), Mul(ay, bz)), Mul(az, by)),
        Sub(Add(Add(Mul(ay, bw), Mul(aw, by)), Mul(az, bx)), Mul(ax, bz)),
        Sub(Add(Add(Mul(az, bw), Mul(aw, bz)), Mul(ax, by)), Mul(ay, bx)),
        Sub(Sub(Sub(Mul(aw, bw), Mul(ax, bx)), Mul(ay, by)), Mul(az, bz))>>

\* ------------------------------------------------------------------ inputs

V(a, b, c) == <<R(a), R(b), R(c)>>

\* 2^-20 < EPSILON <= 2^-19
Tiny == Q(1, 1048576)
Small == Q(1, 524288)

\* The data a mat4 is constructed from: new mat4() and new mat4(data).
InitData ==
  { Identity,
    Nums(<<1, 0, 0, 1,  0, 1, 0, 2,  0, 0, 1, -1,  1, 2, 3, 1>>),
    Nums(<<2, 0, 0, 0,  0, 1, 0, 1,  0, 0, 1, 0,  1, 0, 0, 1>>),
    Nums(<<0, 1, 0, 0,  -1, 0, 0, 0,  0, 0, 2, 1,  3, 0, 1, 1>>),
    Nums(<<1, 2, 0, 1,  0, 1, 1, 0,  1, 0, 1, 2,  0, 1, 0, 1>>),
    Nums(<<3, 0, 0, 0,  0, 1, 0, 0,  0, 0, 1, 0,  0, 0, 0, 1>>),
    Nums(<<1, 1, 0, 0,  2, 2, 1, 0,  3, 3, 0, 1,  4, 4, 0, 0>>),
    Nums(<<1, 2, 0, 0,  2, 4, 0, 0,  0, 0, 1, 0,  0, 0, 0, 1>>),
    Nums(<<0, 1, 0, 1,  1, 0, 0, 2,  2, 0, 0, -1,  1, 2, 3, 1>>),
    Nums(<<1, 0, 0, 0,  0, -2, 0, 0,  0, 0, -1, 0,  5, 6, 7, 1>>),
    Nums(<<0, 0, 0, 0,  0, 0, 0, 0,  0, 0, 0, 0,  0, 0, 0, 0>>) }

\* Singular matrices of integers too wide for their determinant to be
\* computed without rounding: in the first two one column is a sum of
\* multiples of the others, in the third two rows are equal.
WideData ==
  { Nums(<<-6396, -4035, -6679, -4109,  -6560, -5951, 7628, -7111,
           -5370, 7864, 2159, -3047,  -30092, 1707, -1412, -21423>>),
    Nums(<<14861, -17143, -21032, -27421,  -7356, -27, 6206, 6761,
           -7967, 6318, 3464, 5078,  -231, -5426, -5681, -7791>>),
    Nums(<<6396, 6396, -6679, -4109,  -6560, -6560, 7628, -7111,
           -5370, -5370, 2159, -3047,  -30092, -30092, -1412, -21423>>) }

\* The matrices passed to multiply().
ArgData ==
  { Nums(<<1, 0, 0, 0,  0, 1, 0, 0,  0, 0, 1, 0,  1, -2, 3, 1>>),
    Nums(<<0, 2, 0, 0,  -2, 0, 0, 0,  0, 0, 1, 1,  0, 0, 0, 1>>) }

\* The quaternions passed as rotations: the 24 unit quaternions with dyadic
\* components, and one quaternion that is not normalized.
Quats ==
  { <<R(a), Zero, Zero, Zero>> : a \in {-1, 1} } \cup
  { <<Zero, R(a), Zero, Zero>> : a \in {-1, 1} } \cup
  { <<Zero, Zero, R(a), Zero>> : a \in {-1, 1} } \cup
  { <<Zero, Zero, Zero, R(a)>> : a \in {-1, 1} } \cup
  { <<Q(a, 2), Q(b, 2), Q(c, 2), Q(e, 2)>> : a, b, c, e \in {-1, 1} } \cup
  { <<One, One, Zero, Zero>> }

\* The unit quaternions passed as right operand to quatMulTo(): no turn,
\* half turns about x and z, a third of a turn about (1, 1, 1) and one about
\* (1, -1, -1).
Versors ==
  { <<Zero, Zero, Zero, One>>,
    <<One, Zero, Zero, Zero>>,
    <<Zero, Zero, One, Zero>>,
    <<Q(1, 2), Q(1, 2), Q(1, 2), Q(1, 2)>>,
    <<Q(-1, 2), Q(1, 2), Q(1, 2), Q(-1, 2)>> }

Translations == { V(0, 0, 0), V(1, -2, 3) }

\* The vectors passed to the functions on vectors
Vectors == { V(1, 0, 0), V(0, 1, 0), V(1, 2, 3), V(-2, 0, 5), V(3, -1, 2) }

\* (current, target, maxDelta) of moveTowards(), as doubles: small numbers
\* with steps of 0, 1/2, 1, 2 and 4, and numbers near 2^53, where the doubles
\* are the even integers.
Walks ==
  ({ Double(R(0)), Double(R(3)), Double(R(-5)), Double(Q(7, 2)) }
     \X { Double(R(0)), Double(R(3)), Double(R(-5)), Double(R(10)) }
     \X { Double(R(0)), Double(Q(1, 2)), Double(R(1)), Double(R(2)), Double(R(4)) })
  \cup
  ({ <<1, <<1>>, 53>> }
     \X { DoublePlus(<<1, <<1>>, 53>>, <<1, <<8>>, 0>>),
          DoublePlus(<<1, <<1>>, 53>>, <<-1, <<3>>, 0>>) }
     \X { Double(R(1)), Double(R(2)) })

\* The mat3 passed to mat3Frob(): matrices of integers for which both
\* versions take the root of a square.
Matrices3 ==
  { <<R(0), R(0), R(0), R(0), R(0), R(0), R(0), R(0), R(0)>>,
    <<R(1), R(2), R(2), R(4), R(0), R(0), R(0), R(0), R(0)>>,
    <<R(3), R(0), R(0), R(0), R(0), R(0), R(-4), R(0), R(0)>>,
    <<R(0), R(0), R(0), R(0), R(0), R(2), R(0), R(0), R(0)>>,
    <<R(1), R(0), R(0), R(0), R(0), R(2), R(0), R(0), R(2)>>,
    <<R(3), R(0), R(0), R(0), R(0), R(2), R(0), R(0), R(6)>> }

\* The matrices passed to vec3TransformMat4(): the identity, a translation
\* with 2 for m33, a matrix with a fourth row (1, 2, -1, 1) and one with a
\* fourth row of zeros.
Projections ==
  { Identity,
    Nums(<<1, 0, 0, 0,  0, 1, 0, 0,  0, 0, 1, 0,  1, -2, 3, 2>>),
    Nums(<<1, 0, 0, 1,  0, 1, 0, 2,  0, 0, 1, -1,  1, 2, 3, 1>>),
    Nums(<<2, 0, 0, 0,  0, 1, 0, 0,  0, 0, 1, 0,  0, 0, 0, 0>>) }

Scalings == { V(1, 1, 1), V(2, 2, 2), V(1, 2, 4), V(-2, 3, 4), V(0, 2, 1) }

\* (rad, axis) of rotate() and fromRotation(): every kind of axis, the
\* degenerate ones and the unit axis with several angles each.
Turns ==
  ({0, 1, 3} \X {V(0, 0, 0)}) \cup ({1, 2} \X {<<Tiny, Zero, Zero>>})
    \cup ({1} \X {<<Zero, Small, Zero>>}) \cup ({1, 2, 3} \X {V(1, 0, 0)})
    \cup ({0, 1} \X {V(0, 0, -2)})

\* (rotation, translation, scaling, origin) of
\* fromRotationTranslationScaleOrigin()
Pivots ==
  { <<Zero, Zero, Zero, One>>, <<Q(1, 2), Q(1, 2), Q(1, 2), Q(1, 2)>>,
    <<Zero, Zero, One, Zero>>, <<Q(-1, 2), Q(1, 2), Q(-1, 2), Q(1, 2)>> }
    \X Translations
    \X { V(1, 1, 1), V(1, 2, 4), V(-2, 3, 4) }
    \X { V(0, 0, 0), V(1, 2, -1), V(2, 0, 0) }

\* (eye, center, up) of lookAt()
Views ==
  { <<V(1, 2, 3), V(1, 2, 3), V(0, 1, 0)>>,
    <<V(1, 2, 3), <<Add(One, Tiny), R(2), Sub(R(3), Tiny)>>, V(0, 0, 0)>>,
    <<V(0, 0, 1), V(0, 0, 0), V(0, 1, 0)>>,
    <<V(0, 2, 3), <<Neg(Small), R(2), R(3)>>, V(0, 1, 0)>>,
    <<V(0, 0, 0), V(0, 0, -1), V(0, 1, 0)>>,
    <<V(1, 2, 3), V(1, 2, 5), V(0, 1, 0)>>,
    <<V(0, 0, 1), V(0, 0, 0), V(0, 0, 1)>>,
    <<V(1, 2, 3), V(1, 2, 3), V(0, 0, 0)>> }

Aspects == { R(1), R(2) }
Nears == { R(1), R(2) }
Fars ==
  { <<"null", Zero>>, <<"undefined", NaN>>, <<"number", Infinity>>,
    <<"number", R(3)>>, <<"number", R(5)>>, <<"number", R(0)>>, <<"number", R(1)>> }

\* ------------------------------------------------------------- the calls

Init ==
  /\ m \in InitData
  /\ op = "new"
  /\ args = <<>>
  /\ ret = "this"
  /\ out = <<>>
  /\ branch = "none"
  /\ origin = "new"
  /\ originArgs = <<>>
  /\ n = 0
  /\ held = <<>>
  /\ twin = <<"none">>

\* A call that leaves the axis it is given normalized.
HeldAxisNormalized(o, a) ==
  IF o \in {"rotate", "fromRotation"} THEN <<a[1], NormalizeOrZero(a[2])>> ELSE a

\* What the arguments a of the method o hold after the call, when none of
\* them is the receiver.  No method assigns to an element of an argument's
\* data: each reads the elements into locals, and what it scales or
\* normalizes (x, y, z of rotate(), z0, z1, z2 of lookAt()) are the locals.
\* decompose() is apart: its three arguments are what it writes, and out
\* holds them.
Held(o, a) == a

\* A call that assigns the receiver from its arguments alone (or fails and
\* writes nothing): r is what the method's operator gives.
Build(o, a, r, b) ==
  /\ StorableAll(r.data)
  /\ m' = r.data
  /\ op' = o
  /\ args' = a
  /\ ret' = r.ret
  /\ out' = <<>>
  /\ branch' = b
  /\ held' = Held(o, a)
  /\ UNCHANGED twin
  /\ IF r.ret = "null" THEN UNCHANGED <<origin, originArgs, n>>
     ELSE origin' = o /\ originArgs' = a /\ n' = 0

\* A call that updates the receiver in place (or fails and writes nothing).
Update(o, a, r) ==
  /\ n < MaxOps
  /\ IF r.ret = "null" THEN TRUE ELSE StorableAll(r.data)
  /\ m' = r.data
  /\ op' = o
  /\ args' = a
  /\ ret' = r.ret
  /\ out' = <<>>
  /\ branch' = "none"
  /\ held' = Held(o, a)
  /\ UNCHANGED twin
  /\ IF r.ret = "null" THEN UNCHANGED <<origin, originArgs, n>>
     ELSE origin' = "updated" /\ originArgs' = <<>> /\ n' = n + 1

\* A call that reads the receiver and returns, or writes to, other objects.
Query(o, r, w) ==
  /\ op' = o
  /\ args' = <<>>
  /\ ret' = r
  /\ out' = w
  /\ branch' = "none"
  /\ held' = <<>>
  /\ UNCHANGED <<m, origin, originArgs, n, twin>>

CallInvert ==
  /\ ExactInvert(m)
  /\ \E r \in {Invert(m)} : Update("invert", <<>>, r)

CallAdjoint ==
  /\ StorableAll(m)
  /\ \E r \in {Adjoint(m)} : Update("adjoint", <<>>, r)

\* determinant(): out is the number returned, a double.
CallDeterminant ==
  \E det \in {DeterminantDouble(m)} : Query("determinant", "number", <<det>>)

CallMultiply ==
  \E b \in ArgData : \E r \in {Multiply(m, b)} : Update("multiply", <<b>>, r)

CallRotate ==
  \E turn \in Turns :
    /\ ExactAxis(turn[2])
    /\ \E r \in {Rotate(m, turn[1], turn[2])} : Update("rotate", turn, r)

CallFromRotation ==
  \E turn \in Turns :
    /\ ExactAxis(turn[2])
    /\ \E r \in {FromRotation(m, turn[1], turn[2])} :
         Build("fromRotation", turn, r, "none")

CallMultiplySelf ==
  \E r \in {MultiplySelf(m)} :
    /\ n < MaxOps
    /\ StorableAll(r.data)
    /\ m' = r.data
    /\ op' = "multiply"
    /\ args' = <<m>>
    /\ ret' = r.ret
    /\ out' = <<>>
    /\ branch' = "self"
    /\ held' = <<r.data>>
    /\ origin' = "updated"
    /\ originArgs' = <<>>
    /\ n' = n + 1
    /\ UNCHANGED twin

CallTranslate ==
  \E v \in Translations : \E r \in {Translate(m, v)} : Update("translate", <<v>>, r)

CallScale ==
  \E v \in Scalings : \E r \in {Scale(m, v)} : Update("scale", <<v>>, r)

CallFromTranslation ==
  \E v \in Translations : \E r \in {FromTranslation(m, v)} :
    Build("fromTranslation", <<v>>, r, "none")

CallFromXRotation ==
  \E rad \in Angles : \E r \in {FromXRotation(m, rad)} :
    Build("fromXRotation", <<rad>>, r, "none")

CallFromYRotation ==
  \E rad \in Angles : \E r \in {FromYRotation(m, rad)} :
    Build("fromYRotation", <<rad>>, r, "none")

CallFromZRotation ==
  \E rad \in Angles : \E r \in {FromZRotation(m, rad)} :
    Build("fromZRotation", <<rad>>, r, "none")

CallFromRotationTranslation ==
  \E q \in Quats, v \in Translations :
    \E r \in {FromRotationTranslation(m, q, v)} :
      Build("fromRotationTranslation", <<q, v>>, r, "none")

CallFromRotationTranslationScaleOrigin ==
  \E p \in Pivots :
    \E r \in {FromRotationTranslationScaleOrigin(m, p[1], p[2], p[3], p[4])} :
      Build("fromRotationTranslationScaleOrigin", p, r, "none")

CallFromQuat ==
  \E q \in Quats : \E r \in {FromQuat(m, q)} : Build("fromQuat", <<q>>, r, "none")

CallTargetTo ==
  \E view \in Views :
    /\ ExactTargetTo(view[1], view[2], view[3])
    /\ \E r \in {TargetTo(m, view[1], view[2], view[3])} :
         Build("targetTo", view, r, "none")

\* The elements of the twin
TwinData == IF twin[1] = "same" THEN m ELSE twin[2]

\* twin = this.clone(): out is the data of the matrix returned.
CallClone ==
  /\ twin' = Clone(m)
  /\ op' = "clone"
  /\ args' = <<>>
  /\ ret' = "new"
  /\ out' = <<m>>
  /\ branch' = "none"
  /\ held' = <<>>
  /\ UNCHANGED <<m, origin, originArgs, n>>

\* this.copy(twin)
CallCopy ==
  /\ twin[1] # "none"
  /\ m' = Copy(m, TwinData).data
  /\ op' = "copy"
  /\ args' = <<TwinData>>
  /\ ret' = Copy(m, TwinData).ret
  /\ out' = <<>>
  /\ branch' = "none"
  /\ UNCHANGED <<n, twin>>
  /\ held' = <<TwinData'>>
  /\ origin' = "copy"
  /\ originArgs' = <<>>

\* The program turns to the twin: the calls that follow have it as their
\* receiver, and the matrix that was the receiver is the twin.  n goes on
\* counting the updates of both.
TurnToTwin ==
  /\ twin[1] # "none"
  /\ m' = TwinData
  /\ twin' = (IF twin[1] = "same" THEN twin ELSE <<"own", m>>)
  /\ op' = "turn"
  /\ args' = <<>>
  /\ ret' = "this"
  /\ out' = <<>>
  /\ branch' = "none"
  /\ held' = <<>>
  /\ origin' = "twin"
  /\ originArgs' = <<>>
  /\ UNCHANGED n

CallFromScaling ==
  \E v \in Scalings : \E r \in {FromScaling(m, v)} :
    Build("fromScaling", <<v>>, r, "none")

CallFromRotationTranslationScale ==
  \E q \in Quats, v \in Translations, s \in Scalings :
    \E r \in {FromRotationTranslationScale(m, q, v, s)} :
      Build("fromRotationTranslationScale", <<q, v, s>>, r, "none")

CallLookAt ==
  \E view \in Views :
    /\ ExactLookAt(view[1], view[2], view[3])
    /\ \E r \in {LookAt(m, view[1], view[2], view[3])} :
         Build("lookAt", view, r, r.branch)

CallPerspectiveNO ==
  \E fovy \in Fovs, aspect \in Aspects, near \in Nears, far \in Fars :
    /\ ExactPerspective(fovy, near, far)
    /\ \E r \in {PerspectiveNO(m, fovy, aspect, near, far)} :
         Build("perspectiveNO", <<fovy, aspect, near, far>>, r, r.branch)

CallPerspectiveZO ==
  \E fovy \in Fovs, aspect \in Aspects, near \in Nears, far \in Fars :
    /\ ExactPerspective(fovy, near, far)
    /\ \E r \in {PerspectiveZO(m, fovy, aspect, near, far)} :
         Build("perspectiveZO", <<fovy, aspect, near, far>>, r, r.branch)

CallGetTranslation ==
  \E v \in {GetTranslation(m)} : Query("getTranslation", "vec3", v)

CallGetScaling ==
  /\ ExactScaling(m)
  /\ \E v \in {GetScaling(m)} : Query("getScaling", "vec3", v)

CallGetRotation ==
  /\ ExactRotation(m)
  /\ \E q \in {GetRotation(m)} :
       /\ \A i \in 1..4 : Storable(q[i])
       /\ Query("getRotation", "quat", q)

\* decompose(q, t, s): out is the data of q, t and s afterwards.
CallDecompose ==
  /\ ExactRotation(m)
  /\ \E r \in {Decompose(m)} :
       /\ \A i \in 1..4 : Storable(r.q[i])
       /\ Query("decompose", r.ret, <<r.q, r.t, r.s>>)

CallAdd ==
  \E b \in ArgData : \E r \in {Mat4Add(m, b)} : Update("add", <<b>>, r)

CallSubtract ==
  \E b \in ArgData : \E r \in {Subtract(m, b)} : Update("subtract", <<b>>, r)

CallMultiplyScalar ==
  \E s \in {R(2), R(-1), Q(1, 2)} :
    \E r \in {MultiplyScalar(m, s)} : Update("multiplyScalar", <<s>>, r)

\* A call of a function, or of a method of another class, that leaves the
\* matrix alone: a is what it is passed (the receiver first, for a method), r
\* the kind of value it returns and w the value returned or written.
Apply(o, a, r, w) ==
  /\ op' = o
  /\ args' = a
  /\ ret' = r
  /\ out' = w
  /\ branch' = "none"
  /\ held' = <<>>
  /\ UNCHANGED <<m, origin, originArgs, n, twin>>

\* The five cross products: the method of the class vec3 and the two
\* versions of vec3CrossBy and vec3Cross.
CallCross ==
  \E a, b \in Vectors :
    \/ Apply("vec3.cross", <<a, b>>, "vec3", vec3_cross(a, b))
    \/ Apply("vec3CrossBy", <<a, b>>, "vec3", vec3CrossBy(a, b))
    \/ Apply("vec3Cross", <<a, b>>, "vec3", vec3Cross(a, b))
    \/ Apply("vec3CrossBy_2", <<a, b>>, "vec3", vec3CrossBy_2(a, b))
    \/ Apply("vec3Cross_2", <<a, b>>, "vec3", vec3Cross_2(a, b))

\* moveTowards(current, target, maxDelta), the first call of a loop
CallMoveTowards ==
  /\ op # "moveTowards"
  /\ \E w \in Walks : \E r \in {moveTowards(w[1], w[2], w[3])} :
       Apply("moveTowards", w, "number", <<r>>)

\* current = moveTowards(current, target, maxDelta), the calls that follow,
\* with the same target and maxDelta
CallMoveTowardsAgain ==
  /\ op = "moveTowards"
  /\ \E r \in {moveTowards(out[1], args[2], args[3])} :
       Apply("moveTowards", <<out[1], args[2], args[3]>>, "number", <<r>>)

\* The two versions of mat3Frob
CallMat3Frob ==
  \E a \in Matrices3 :
    \/ Apply("mat3Frob", <<a>>, "number", mat3Frob(a))
    \/ Apply("mat3Frob_2", <<a>>, "number", mat3Frob_2(a))

CallVec3TransformMat4 ==
  \E v \in Vectors, a \in Projections :
    /\ ExactReciprocal(TransformW(v, a))
    /\ Apply("vec3TransformMat4", <<v, a>>, "vec3", vec3TransformMat4(v, a))

CallQuatMulTo ==
  \E left \in Quats, right \in Versors :
    \E r \in {quatMulTo(left, right)} : Apply("quatMulTo", <<left, right>>, "quat", r)

Next ==
  \/ CallQuatMulTo
  \/ CallVec3TransformMat4
  \/ CallMat3Frob
  \/ CallMoveTowards
  \/ CallMoveTowardsAgain
  \/ CallCross
  \/ CallAdd
  \/ CallSubtract
  \/ CallMultiplyScalar
  \/ CallInvert
  \/ CallAdjoint
  \/ CallDeterminant
  \/ CallMultiply
  \/ CallMultiplySelf
  \/ CallTranslate
  \/ CallScale
  \/ CallRotate
  \/ CallFromTranslation
  \/ CallFromXRotation
  \/ CallFromYRotation
  \/ CallFromZRotation
  \/ CallFromRotation
  \/ CallFromRotationTranslation
  \/ CallFromRotationTranslationScaleOrigin
  \/ CallFromQuat
  \/ CallTargetTo
  \/ CallClone
  \/ CallCopy
  \/ TurnToTwin
  \/ CallFromScaling
  \/ CallFromRotationTranslationScale
  \/ CallLookAt
  \/ CallPerspectiveNO
  \/ CallPerspectiveZO
  \/ CallGetTranslation
  \/ CallGetScaling
  \/ CallGetRotation
  \/ CallDecompose

Spec == Init /\ [][Next]_vars

\* The calls of a program that inverts, multiplies and rotates.
NextUpdate ==
  \/ CallInvert
  \/ CallMultiply
  \/ CallRotate
  \/ CallFromRotation

SpecUpdate == Init /\ [][NextUpdate]_vars

\* A matrix constructed from any data, the wide matrices included.
InitAlgebra ==
  /\ m \in InitData \cup WideData
  /\ op = "new"
  /\ args = <<>>
  /\ ret = "this"
  /\ out = <<>>
  /\ branch = "none"
  /\ origin = "new"
  /\ originArgs = <<>>
  /\ n = 0
  /\ held = <<>>
  /\ twin = <<"none">>

\* The calls of a program that solves linear systems.
NextAlgebra ==
  \/ CallInvert
  \/ CallAdjoint
  \/ CallDeterminant
  \/ CallMultiply

SpecAlgebra == InitAlgebra /\ [][NextAlgebra]_vars

\* The calls of a program that composes a transform and takes it apart.
NextTRS ==
  \/ CallFromScaling
  \/ CallFromRotationTranslation
  \/ CallFromRotationTranslationScale
  \/ CallGetTranslation
  \/ CallGetScaling
  \/ CallGetRotation
  \/ CallDecompose

SpecTRS == Init /\ [][NextTRS]_vars

\* The calls of a program that sets up a camera.
NextView ==
  \/ CallLookAt
  \/ CallPerspectiveNO
  \/ CallPerspectiveZO

SpecView == Init /\ [][NextView]_vars

\* The calls of a program that sets a matrix from a description of a
\* transform.
NextBuild ==
  \/ CallFromTranslation
  \/ CallFromScaling
  \/ CallFromRotation
  \/ CallFromXRotation
  \/ CallFromYRotation
  \/ CallFromZRotation
  \/ CallFromRotationTranslationScaleOrigin

SpecBuild == Init /\ [][NextBuild]_vars

\* The calls of a program that moves a matrix step by step.
NextInPlace ==
  \/ CallTranslate
  \/ CallScale
  \/ CallRotate
  \/ CallMultiply
  \/ CallMultiplySelf

SpecInPlace == Init /\ [][NextInPlace]_vars

\* The call is the first on the matrix since its construction.
FirstCall == op = "new"

\* The first call of a program on a matrix it has constructed, for every
\* method that is passed a vec3, a quat or a mat4.
NextFirst ==
  \/ FirstCall /\ CallMultiply
  \/ FirstCall /\ CallMultiplySelf
  \/ FirstCall /\ CallTranslate
  \/ FirstCall /\ CallScale
  \/ FirstCall /\ CallRotate
  \/ FirstCall /\ CallFromTranslation
  \/ FirstCall /\ CallFromScaling
  \/ FirstCall /\ CallFromRotation
  \/ FirstCall /\ CallFromRotationTranslation
  \/ FirstCall /\ CallFromRotationTranslationScale
  \/ FirstCall /\ CallFromRotationTranslationScaleOrigin
  \/ FirstCall /\ CallFromQuat
  \/ FirstCall /\ CallLookAt
  \/ FirstCall /\ CallTargetTo
  \/ FirstCall /\ CallDecompose

SpecFirst == Init /\ [][NextFirst]_vars

\* The calls of a program that keeps a copy of a matrix.
NextCopies ==
  \/ CallClone
  \/ CallCopy
  \/ TurnToTwin
  \/ CallTranslate
  \/ CallScale
  \/ CallInvert
  \/ CallAdjoint

SpecCopies == Init /\ [][NextCopies]_vars

\* The calls of a program that chains in-place operations on the value each
\* returns.
NextChain ==
  \/ CallAdd
  \/ CallSubtract
  \/ CallMultiplyScalar
  \/ CallPerspectiveNO
  \/ CallPerspectiveZO

SpecChain == Init /\ [][NextChain]_vars

\* The calls of a program that reads back the rotation of a matrix built from
\* a quaternion.
NextQuat ==
  \/ CallFromQuat
  \/ CallFromRotationTranslation
  \/ CallGetRotation
  \/ CallDecompose

SpecQuat == Init /\ [][NextQuat]_vars

\* The calls of the functions on vectors and quaternions.
NextFunctions ==
  \/ CallCross
  \/ CallMat3Frob
  \/ CallVec3TransformMat4

SpecFunctions == Init /\ [][NextFunctions]_vars

\* A loop that moves a value towards a target, and the same loop when it is
\* not abandoned: every call is followed by another.
NextMove ==
  \/ CallMoveTowards
  \/ CallMoveTowardsAgain

SpecMove == Init /\ [][NextMove]_vars

SpecMoveFair == SpecMove /\ WF_vars(CallMoveTowardsAgain)

\* The calls of a program that composes rotations as quaternions and as
\* matrices.
NextCompose ==
  \/ CallQuatMulTo
  \/ CallFromQuat

SpecCompose == Init /\ [][NextCompose]_vars

\* ------------------------------------------------------------- the claims

\* x*x + y*y + z*z + w*w = 1
IsNormalized(q) ==
  Add(Add(Add(Mul(q[1], q[1]), Mul(q[2], q[2])), Mul(q[3], q[3])), Mul(q[4], q[4])) = One

IsPositive(s) == \A i \in 1..3 : Gt(s[i], Zero)

\* decompose() has just run on the matrix that
\* fromRotationTranslationScale(q, t, s) built, nothing having updated it
\* since, with q = originArgs[1] normalized and s = originArgs[3] positive.
DecomposedRTS ==
  /\ op = "decompose"
  /\ origin = "fromRotationTranslationScale"
  /\ IsNormalized(originArgs[1])
  /\ IsPositive(originArgs[3])

C2_InverseIsInverse ==
  [][(op' = "invert" /\ Determinant(m) # Zero)
       => (ret' = "this" /\ Multiply(m, m').data = Identity)]_vars

\* invert() has succeeded and left a matrix with a translation part.
C2_Witness ==
  /\ op = "invert"
  /\ ret = "this"
  /\ D(m, 12) # Zero
  /\ m # Identity

\* C3: decompose() of the matrix built by fromRotationTranslationScale(q, t, s),
\* q normalized and s positive, writes a translation equal to t and a scale
\* equal to s.
C3_DecomposeTranslationScale ==
  DecomposedRTS => (out[2] = originArgs[2] /\ out[3] = originArgs[3])

\* decompose() has run on the matrix built from a rotation by 120 degrees,
\* a translation and a non-uniform positive scale.
C3_Witness ==
  /\ op = "decompose"
  /\ origin = "fromRotationTranslationScale"
  /\ originArgs = <<<<Q(1, 2), Q(1, 2), Q(1, 2), Q(1, 2)>>, V(1, -2, 3), V(1, 2, 4)>>

\* C4: decompose() of the matrix built by fromRotationTranslationScale(q, t, s),
\* q normalized and s positive (uniform or not), writes q or -q.
C4_DecomposeRotation ==
  DecomposedRTS =>
    \/ out[1] = originArgs[1]
    \/ out[1] = <<Neg(originArgs[1][1]), Neg(originArgs[1][2]),
                  Neg(originArgs[1][3]), Neg(originArgs[1][4])>>

\* C5: decompose() writes what getRotation(), getTranslation() and
\* getScaling() return for the same matrix, and leaves the matrix unchanged.
C5_DecomposeAgreesWithGetters ==
  [][op' = "decompose"
       => /\ m' = m
          /\ out' = <<GetRotation(m), GetTranslation(m), GetScaling(m)>>]_vars

\* decompose() has run on a constructed matrix with a translation, and the
\* quaternion it wrote is not the identity rotation.
C5_Witness ==
  /\ op = "decompose"
  /\ origin = "new"
  /\ out[2] = V(1, 2, 3)
  /\ out[1][4] # One

\* C6: rotate() and fromRotation() with an axis shorter than EPSILON return
\* null, whatever rad is, and leave the receiver's 16 elements as they were.
C6_DegenerateAxis ==
  [][(op' \in {"rotate", "fromRotation"}
        /\ Lt(MathHypot(args'[2][1], args'[2][2], args'[2][3]), EPSILON))
       => (ret' = "null" /\ m' = m)]_vars

\* rotate() has returned null for an axis that is not zero but shorter than
\* EPSILON.
C6_Witness ==
  /\ op = "rotate"
  /\ ret = "null"
  /\ args = <<1, <<Tiny, Zero, Zero>>>>

\* C7 as stated: a successful rotate() leaves the elements 12..15 and the
\* elements 3, 7, 11, 15 unchanged.
C7_RotateKeepsRowAndColumn ==
  [][(op' = "rotate" /\ ret' = "this")
       => \A i \in {3, 7, 11, 12, 13, 14, 15} : D(m', i) = D(m, i)]_vars

\* C7, amended: a successful rotate() leaves the elements 12..15 unchanged,
\* and leaves the elements 3, 7, 11 zero when all three were zero.
C7_RotateKeepsTail ==
  [][(op' = "rotate" /\ ret' = "this")
       => /\ \A i \in 12..15 : D(m', i) = D(m, i)
          /\ (\A i \in {3, 7, 11} : D(m, i) = Zero)
               => (\A i \in {3, 7, 11} : D(m', i) = Zero)]_vars

\* rotate() by a quarter turn has succeeded on a matrix with a non-zero
\* element 12 and a non-zero element 3.
C7_Witness ==
  /\ op = "rotate"
  /\ ret = "this"
  /\ args[1] = 1
  /\ D(m, 12) # Zero
  /\ D(m, 3) # Zero

\* C8: lookAt() sets the receiver to the identity through its fallback when
\* the three differences |eye - center| are all below EPSILON, and does not
\* take the fallback when one of them is not.
C8_LookAtFallback ==
  op = "lookAt" =>
    LET eye == args[1]
        center == args[2]
        below == \A i \in 1..3 : Lt(MathAbs(Sub(eye[i], center[i])), EPSILON)
    IN  /\ below => (branch = "identity" /\ m = Identity)
        /\ ~below => branch = "view"

\* lookAt() has taken the fallback for an eye and a center that differ.
C8_Witness ==
  /\ op = "lookAt"
  /\ branch = "identity"
  /\ args[1] # args[2]
  /\ m = Identity

\* C9: perspectiveNO() and perspectiveZO() write all 16 elements; with far
\* null, undefined or Infinity the elements 10 and 14 are -1 and -2 * near
\* (NO) or -1 and -near (ZO), with any other far they are formed with
\* 1 / (near - far).
C9_PerspectiveFar ==
  op \in {"perspectiveNO", "perspectiveZO"} =>
    LET fovy == args[1]
        aspect == args[2]
        near == args[3]
        far == args[4]
        infinite == far[1] \in {"null", "undefined"} \/ far[2] = Infinity
        NO == op = "perspectiveNO"
        f == Div(One, MathTanHalf(fovy))
        nf == Div(One, Sub(near, far[2]))
        m22 == IF infinite THEN R(-1)
               ELSE IF NO THEN Mul(Add(far[2], near), nf) ELSE Mul(far[2], nf)
        m32 == IF infinite THEN (IF NO THEN Mul(R(-2), near) ELSE Neg(near))
               ELSE IF NO THEN Mul(Mul(Mul(R(2), far[2]), near), nf)
               ELSE Mul(Mul(far[2], near), nf)
    IN  m = << Div(f, aspect), Zero, Zero, Zero,
               Zero, f, Zero, Zero,
               Zero, Zero, m22, R(-1),
               Zero, Zero, m32, Zero >>

\* perspectiveZO() has been called with far = Infinity and near = 2.
C9_Witness ==
  /\ op = "perspectiveZO"
  /\ args[4] = <<"number", Infinity>>
  /\ args[3] = R(2)
  /\ D(m, 10) = R(-1)
  /\ D(m, 14) = R(-2)

ScaledIdentity(k) ==
  <<k, Zero, Zero, Zero, Zero, k, Zero, Zero, Zero, Zero, k, Zero, Zero, Zero, Zero, k>>

\* C11: adjoint() returns the matrix for every input, singular or not, and
\* leaves the adjugate: M times the matrix left is determinant(M) times the
\* identity, and for an invertible M the matrix left is determinant(M) times
\* what invert() leaves (over inputs whose adjugate is exactly representable).
C11_AdjointIsAdjugate ==
  [][op' = "adjoint"
       => /\ ret' = "this"
          /\ Multiply(m, m').data = ScaledIdentity(Determinant(m))
          /\ Determinant(m) # Zero
               => \A i \in 1..16 : m'[i] = Mul(Determinant(m), Invert(m).data[i])]_vars

\* adjoint() has returned on a singular matrix with two identical rows, and
\* has left a matrix that is not zero.
C11_Witness ==
  /\ op = "adjoint"
  /\ ret = "this"
  /\ m = Nums(<<4, 0, 0, -1,  -4, 0, 0, 1,  0, 0, 0, 0,  0, 0, 0, 0>>)

\* C12 as stated: determinant() leaves M unchanged, and for every M invert()
\* returns null exactly when determinant() returns 0.
C12_SingularityAgrees ==
  [][/\ op' = "determinant" => m' = m
     /\ op' = "invert" => (ret' = "null" <=> FNot(DeterminantDouble(m)))]_vars

\* C12, amended: determinant() leaves M unchanged, and for every M of the
\* window, on which neither expansion of the determinant rounds, invert()
\* returns null exactly when determinant() returns 0.
C12_SingularityAgreesExact ==
  [][/\ op' = "determinant" => m' = m
     /\ (op' = "invert" /\ StorableAll(m))
          => (ret' = "null" <=> FNot(DeterminantDouble(m)))]_vars

\* invert() has returned null on a singular matrix of small integers whose
\* diagonal has no zero.
C12_Witness ==
  /\ op = "invert"
  /\ ret = "null"
  /\ m = Nums(<<1, 2, 0, 0,  2, 4, 0, 0,  0, 0, 1, 0,  0, 0, 0, 1>>)

\* C13: with Math.sin and Math.cos giving the same pair of values in both,
\* fromXRotation(rad) leaves the 16 elements that fromRotation(rad, (1, 0, 0))
\* leaves, fromYRotation(rad) those of fromRotation(rad, (0, 1, 0)) and
\* fromZRotation(rad) those of fromRotation(rad, (0, 0, 1)).
C13_AxisRotationsAgree ==
  /\ op = "fromXRotation" => m = FromRotation(m, args[1], V(1, 0, 0)).data
  /\ op = "fromYRotation" => m = FromRotation(m, args[1], V(0, 1, 0)).data
  /\ op = "fromZRotation" => m = FromRotation(m, args[1], V(0, 0, 1)).data

\* fromYRotation() has built the quarter turn about Y: sin is 1, data[2] is
\* -1 and data[8] is 1.
C13_Witness ==
  /\ op = "fromYRotation"
  /\ args = <<1>>
  /\ D(m, 2) = R(-1)
  /\ D(m, 8) = One

\* The vector -o
Opposite(o) == <<Neg(o[1]), Neg(o[2]), Neg(o[3])>>

\* Row i (0..3) of the matrix d applied to the point (p, 1)
RowAtPoint(d, i, p) ==
  Add(Add(Add(Mul(D(d, i), p[1]), Mul(D(d, 4 + i), p[2])), Mul(D(d, 8 + i), p[3])),
      D(d, 12 + i))

\* Row i (0..2) of the upper-left 3x3 block of d applied to the vector p
BlockAt(d, i, p) ==
  Add(Add(Mul(D(d, i), p[1]), Mul(D(d, 4 + i), p[2])), Mul(D(d, 8 + i), p[3]))

\* identity, translate(v), translate(o), multiply(fromQuat(q)), scale(s),
\* translate(-o), each applied to the result of the one before
PivotSequence(q, v, s, o) ==
  Translate(
    Scale(
      Multiply(Translate(Translate(Identity, v).data, o).data,
               FromQuat(Identity, q).data).data,
      s).data,
    Opposite(o)).data

\* C14: after fromRotationTranslationScaleOrigin(q, v, s, o), with B the
\* upper-left 3x3 block of the result, elements 12..14 are v + o - B.o, the 16
\* elements are those of the sequence identity, translate(v), translate(o),
\* multiply(fromQuat(q)), scale(s), translate(-o), and the matrix maps the
\* point o to o + v.
C14_PivotIsSequence ==
  op = "fromRotationTranslationScaleOrigin"
    => /\ \A i \in 0..2 :
            D(m, 12 + i) = Sub(Add(args[2][i + 1], args[4][i + 1]), BlockAt(m, i, args[4]))
       /\ m = PivotSequence(args[1], args[2], args[3], args[4])
       /\ \A i \in 0..2 :
            RowAtPoint(m, i, args[4]) = Add(args[4][i + 1], args[2][i + 1])
       /\ RowAtPoint(m, 3, args[4]) = One

\* fromRotationTranslationScaleOrigin() has been called with a rotation, a
\* scaling that is not uniform and an origin that is not the zero vector: the
\* translation column is not v.
C14_Witness ==
  /\ op = "fromRotationTranslationScaleOrigin"
  /\ args = <<<<Q(1, 2), Q(1, 2), Q(1, 2), Q(1, 2)>>, V(1, -2, 3), V(-2, 3, 4), V(1, 2, -1)>>
  /\ <<D(m, 12), D(m, 13), D(m, 14)>> # args[2]

\* identity, translate(v), multiply(fromQuat(q)), scale(s), each applied to
\* the result of the one before
TRSSequence(q, v, s) ==
  Scale(Multiply(Translate(Identity, v).data, FromQuat(Identity, q).data).data, s).data

\* C15: after fromRotationTranslationScale(q, v, s) the 16 elements are those
\* of the sequence identity, translate(v), multiply(fromQuat(q)), scale(s):
\* basis vector k of the rotation fromQuat(q) is multiplied by component k of
\* s, as scale(s) multiplies it, elements 12..14 are v and elements 3, 7, 11,
\* 15 are 0, 0, 0, 1.
C15_TRSIsSequence ==
  op = "fromRotationTranslationScale"
    => /\ m = TRSSequence(args[1], args[2], args[3])
       /\ SubSeq(m, 1, 12) = SubSeq(Scale(FromQuat(Identity, args[1]).data, args[3]).data, 1, 12)
       /\ <<D(m, 12), D(m, 13), D(m, 14)>> = args[2]
       /\ <<D(m, 3), D(m, 7), D(m, 11), D(m, 15)>> = <<Zero, Zero, Zero, One>>

\* fromRotationTranslationScale() has been called with a rotation that turns
\* the axes into one another and three different scale factors.
C15_Witness ==
  /\ op = "fromRotationTranslationScale"
  /\ args = <<<<Q(1, 2), Q(1, 2), Q(1, 2), Q(1, 2)>>, V(1, -2, 3), V(-2, 3, 4)>>
  /\ D(m, 1) = R(-2)
  /\ D(m, 6) = R(3)
  /\ D(m, 8) = R(4)

\* The methods that are passed a vec3, a quat or a mat4 and read it
ReadingMethods ==
  { "multiply", "translate", "scale", "rotate", "fromTranslation", "fromScaling",
    "fromRotation", "fromRotationTranslation", "fromRotationTranslationScale",
    "fromRotationTranslationScaleOrigin", "fromQuat", "lookAt", "targetTo" }

\* C16 as stated: after multiply(b), translate(v), scale(v), rotate(rad,
\* axis), a from* builder, lookAt or targetTo, every argument holds the values
\* it held before the call; decompose() leaves the receiver as it was and
\* writes its three arguments.
C16_ArgumentsKept ==
  [][/\ op' \in ReadingMethods => held' = args'
     /\ op' = "decompose" => m' = m /\ Len(out') = 3]_vars

\* C16, for arguments that are not the receiver: after multiply(b) with b
\* another matrix, translate(v), scale(v), rotate(rad, axis), a from* builder,
\* lookAt or targetTo, every argument holds the values it held before the
\* call; after M.multiply(M) the argument holds the product, as M does;
\* decompose() leaves the receiver as it was and writes its three arguments.
C16_ArgumentsKeptApart ==
  [][/\ (op' \in ReadingMethods /\ branch' # "self") => held' = args'
     /\ (op' = "multiply" /\ branch' = "self") => held' = <<m'>>
     /\ op' = "decompose" => m' = m /\ Len(out') = 3]_vars

\* rotate() has normalized an axis of length 2 and turned the matrix, and the
\* axis passed still has length 2.
C16_Witness ==
  /\ op = "rotate"
  /\ ret = "this"
  /\ args = <<1, V(0, 0, -2)>>
  /\ held = args

\* C17: b = a.clone() gives b the 16 elements of a and leaves a as it was,
\* b.copy(a) gives b the 16 elements of a and leaves a as it was, and an
\* in-place operation on one of the two matrices (translate, scale, invert,
\* adjoint, on either, the program turning from one to the other) leaves the
\* elements of the other unchanged.
C17_CopiesShareNothing ==
  [][/\ op' = "clone" => (m' = m /\ TwinData' = m)
     /\ op' = "copy" => (m' = TwinData /\ TwinData' = TwinData)
     /\ op' = "turn" => (m' = TwinData /\ TwinData' = m)
     /\ (op' \in {"translate", "scale", "invert", "adjoint"} /\ twin[1] # "none")
          => TwinData' = TwinData]_vars

\* A matrix has been cloned and then translated: the two matrices differ.
C17_Witness ==
  /\ op = "translate"
  /\ ret = "this"
  /\ twin[1] = "own"
  /\ twin[2] # m

\* A getter has just run on the matrix that fromRotationTranslation(q, v)
\* built, nothing having updated it since, with q = originArgs[1] normalized.
ReadRT(getter) ==
  /\ op = getter
  /\ origin = "fromRotationTranslation"
  /\ IsNormalized(originArgs[1])

C19_BuildersFromIdentity ==
  [][/\ op' = "fromTranslation" => m' = Translate(Identity, args'[1]).data
     /\ op' = "fromScaling" => m' = Scale(Identity, args'[1]).data
     /\ (op' = "fromRotation" /\ ret' = "this")
          => m' = Rotate(Identity, args'[1], args'[2]).data]_vars

\* fromRotation() has succeeded with an axis that is not normalized: the
\* quarter turn about (0, 0, -1).
C19_Witness ==
  /\ op = "fromRotation"
  /\ ret = "this"
  /\ args = <<1, V(0, 0, -2)>>
  /\ D(m, 1) = R(-1)
  /\ D(m, 12) = Zero

\* C20: for every matrix M, with a fourth row of 0, 0, 0, 1 or any other,
\* M.translate(v) leaves M holding what M.multiply(fromTranslation(v)) gives,
\* M.scale(v) what M.multiply(fromScaling(v)) gives, and an M.rotate(rad,
\* axis) that succeeds what M.multiply(fromRotation(rad, axis)) gives.
C20_InPlaceIsPostMultiply ==
  [][/\ op' = "translate"
          => m' = Multiply(m, FromTranslation(Identity, args'[1]).data).data
     /\ op' = "scale"
          => m' = Multiply(m, FromScaling(Identity, args'[1]).data).data
     /\ (op' = "rotate" /\ ret' = "this")
          => m' = Multiply(m, FromRotation(Identity, args'[1], args'[2]).data).data]_vars

\* translate() has moved a matrix whose fourth row is not 0, 0, 0, 1:
\* data[15] is no longer 1.
C20_Witness ==
  /\ op = "translate"
  /\ args = <<V(1, -2, 3)>>
  /\ <<D(m, 3), D(m, 7), D(m, 11)>> # <<Zero, Zero, Zero>>
  /\ D(m, 15) # One

\* The in-place operations of a chain
ChainMethods ==
  { "add", "subtract", "multiplyScalar", "perspectiveNO", "perspectiveZO" }

\* C21: an in-place operation that does not fail returns the mat4 it was
\* called on: subtract(matrix) and perspectiveZO(fovy, aspect, near, far) do,
\* as add, multiplyScalar and perspectiveNO do.
C21_ReturnsReceiver ==
  (op \in ChainMethods /\ ret # "null") => ret = "this"

\* getRotation() or decompose() has just run on a matrix whose upper-left 3x3
\* block is the rotation of the normalized quaternion originArgs[1].
ReadRotation ==
  /\ op \in {"getRotation", "decompose"}
  /\ origin \in {"fromQuat", "fromRotationTranslation"}
  /\ IsNormalized(originArgs[1])

\* C22: on a matrix whose upper-left 3x3 block is a pure rotation, half turns
\* about X, Y or Z and equal diagonal entries included, the branch that
\* getRotation() and decompose() select takes the square root of a number
\* that is at least 1, and every component of the quaternion they give is
\* finite.
C22_RootAtLeastOne ==
  ReadRotation
    => /\ ~Lt(RootArgument(ScaledElements(m)), One)
       /\ \A i \in 1..4 :
            IsFinite((IF op = "decompose" THEN out[1] ELSE out)[i])

\* getRotation() has run on the half turn about Y: the trace is -1 and the
\* third branch is the one selected.
C22_Witness ==
  /\ ReadRotation
  /\ op = "getRotation"
  /\ originArgs[1] = <<Zero, One, Zero, Zero>>
  /\ Add(Add(D(m, 0), D(m, 5)), D(m, 10)) = R(-1)
  /\ out = <<Zero, One, Zero, Zero>>

\* decompose() has run on a rotation whose three diagonal entries are equal:
\* the last branch is the one selected and the root is taken of 1.
C22_WitnessTie ==
  /\ ReadRotation
  /\ op = "decompose"
  /\ D(m, 0) = Zero /\ D(m, 5) = Zero /\ D(m, 10) = Zero
  /\ RootArgument(ScaledElements(m)) = One

\* The upper-left 3x3 block of d has a basis vector of length 0.
ZeroScale(d) == \E i \in 1..3 : GetScaling(d)[i] = Zero

\* C23: on a matrix whose upper-left 3x3 block has a basis vector of length 0,
\* getRotation() returns a quat and decompose() returns the matrix, as on any
\* other matrix: 1 is divided by the zero length and the four components of
\* the quaternion are NaN, while getScaling() returns three finite lengths,
\* which decompose() writes too, and the translation that decompose() writes
\* is data[12..14].
C23_ZeroScaleUnguarded ==
  /\ (op = "getRotation" /\ ZeroScale(m))
       => (ret = "quat" /\ \A i \in 1..4 : out[i] = NaN)
  /\ (op = "decompose" /\ ZeroScale(m))
       => /\ ret = "this"
          /\ \A i \in 1..4 : out[1][i] = NaN
          /\ out[2] = <<D(m, 12), D(m, 13), D(m, 14)>>
          /\ \A i \in 1..3 : IsFinite(out[3][i])
          /\ \E i \in 1..3 : out[3][i] = Zero
  /\ (op = "getScaling" /\ ZeroScale(m))
       => /\ ret = "vec3"
          /\ \A i \in 1..3 : IsFinite(out[i])
          /\ \E i \in 1..3 : out[i] = Zero

\* decompose() has run on the matrix built with the scaling (0, 2, 1) and the
\* translation (1, -2, 3).
C23_Witness ==
  /\ op = "decompose"
  /\ origin = "fromRotationTranslationScale"
  /\ originArgs[3] = V(0, 2, 1)
  /\ out[1] = <<NaN, NaN, NaN, NaN>>
  /\ out[2] = V(1, -2, 3)
  /\ out[3] = V(0, 2, 1)

CrossMethods == {"vec3.cross", "vec3CrossBy", "vec3Cross", "vec3CrossBy_2", "vec3Cross_2"}

\* What the cross product called o gives for a and b
CrossOf(o, a, b) ==
  CASE o = "vec3.cross" -> vec3_cross(a, b)
    [] o = "vec3CrossBy" -> vec3CrossBy(a, b)
    [] o = "vec3Cross" -> vec3Cross(a, b)
    [] o = "vec3CrossBy_2" -> vec3CrossBy_2(a, b)
    [] o = "vec3Cross_2" -> vec3Cross_2(a, b)

\* C24: each of the five cross products gives, for a and b, the vector
\* (ay*bz - az*by, az*bx - ax*bz, ax*by - ay*bx), whose dot product with a and
\* with b is 0, and gives the opposite vector for b and a.
C24_CrossProduct ==
  op \in CrossMethods
    => LET a == args[1]
           b == args[2]
       IN  /\ out = <<Sub(Mul(a[2], b[3]), Mul(a[3], b[2])),
                      Sub(Mul(a[3], b[1]), Mul(a[1], b[3])),
                      Sub(Mul(a[1], b[2]), Mul(a[2], b[1]))>>
           /\ Dot3(out[1], a[1], out[2], a[2], out[3], a[3]) = Zero
           /\ Dot3(out[1], b[1], out[2], b[2], out[3], b[3]) = Zero
           /\ CrossOf(op, b, a) = <<Neg(out[1]), Neg(out[2]), Neg(out[3])>>

\* The exact difference a - b of two doubles, and the exact |a|
Minus(a, b) == DoublePlus(a, <<-b[1], b[2], b[3]>>)
Magnitude(a) == <<AbsI(a[1]), a[2], a[3]>>

\* One call of moveTowards(current, target, maxDelta) with maxDelta >= 0: the
\* result lies between current and target, and its distance to target is
\* max(0, |target - current| - maxDelta).
MovedTowards ==
  LET current == args[1]
      target == args[2]
      maxDelta == args[3]
      result == out[1]
      rest == Minus(Magnitude(Minus(target, current)), maxDelta)
  IN  /\ Minus(result, current)[1] * Minus(target, result)[1] >= 0
      /\ Minus(Magnitude(Minus(target, result)),
               IF rest[1] > 0 THEN rest ELSE DoubleZero)[1] = 0

\* The value moved is at the target.
Arrived == op = "moveTowards" /\ Minus(out[1], args[2])[1] = 0

\* a is a multiple of 2^-10 of magnitude below 2^42: sums and differences of
\* such numbers are not rounded.
Plain(a) == a[1] = 0 \/ (a[3] >= -10 /\ BitLen(DoubleAt(a, -10)) <= 52)

PlainWalk == Plain(args[1]) /\ Plain(args[2]) /\ Plain(args[3])

\* C25 as stated: a call of moveTowards with maxDelta >= 0 gives a result
\* between current and target at the distance max(0, |target - current| -
\* maxDelta) of target; calls repeated with a maxDelta > 0 reach target, and
\* once at target the value stays there.
C25_MoveTowards ==
  /\ [](op = "moveTowards" => MovedTowards)
  /\ (op = "moveTowards" /\ args[3][1] > 0) ~> Arrived
  /\ [][(Arrived /\ op' = "moveTowards") => Arrived']_vars

\* C25, where no sum is rounded (current, target and maxDelta multiples of
\* 2^-10 of magnitude below 2^42): a call of moveTowards with maxDelta >= 0
\* gives a result between current and target at the distance max(0, |target -
\* current| - maxDelta) of target, and calls repeated with a maxDelta > 0
\* reach target; once at target the value stays there, whatever the numbers.
C25_MoveTowardsExact ==
  /\ []((op = "moveTowards" /\ PlainWalk) => MovedTowards)
  /\ (op = "moveTowards" /\ PlainWalk /\ args[3][1] > 0) ~> Arrived
  /\ [][(Arrived /\ op' = "moveTowards") => Arrived']_vars

\* The walk from 3 to 10 by steps of 2 has made its last step, from 9, which
\* is a step of 1.
C25_Witness ==
  /\ op = "moveTowards"
  /\ args = <<Double(R(9)), Double(R(10)), Double(R(2))>>
  /\ out = <<Double(R(10))>>

\* C26: mat3Frob(m), in both versions, returns a number that is not negative
\* and whose square is m00^2 + m01^2 + m02^2 + m10^2 + m11^2 + m12^2 + m20^2 +
\* m21^2 + m22^2.
C26_FrobeniusNorm ==
  op \in {"mat3Frob", "mat3Frob_2"}
    => /\ ~Lt(out, Zero)
       /\ Mul(out, out) = SumSquares(args[1])

\* C28: vec3TransformMat4(out, v, m) leaves in out the first three components
\* of m.(v, 1) divided by its fourth component w, and undivided when w is 0:
\* for a matrix whose fourth row is (0, 0, 0, 2), half of the affine image of
\* v.
C28_TransformDivides ==
  op = "vec3TransformMat4"
    => \A i \in 0..2 :
         out[i + 1] = IF RowAtPoint(args[2], 3, args[1]) = Zero
                      THEN RowAtPoint(args[2], i, args[1])
                      ELSE Div(RowAtPoint(args[2], i, args[1]),
                               RowAtPoint(args[2], 3, args[1]))

\* C27: M.multiply(M) leaves M equal to the product M.M computed from the
\* elements M held before the call: no element is read after it has been
\* overwritten.
C27_SelfMultiply ==
  [][(op' = "multiply" /\ branch' = "self") => m' = Multiply(m, m).data]_vars

\* A matrix that is not its own square has been multiplied by itself, and
\* holds the square of the elements it held.
C27_Witness ==
  /\ op = "multiply"
  /\ branch = "self"
  /\ m # args[1]
  /\ args[1] # Multiply(args[1], args[1]).data
  /\ m = Multiply(args[1], args[1]).data
  /\ m[1] # Mul(args[1][1], args[1][1])

\* C29: for unit quaternions a and b the matrix fromQuat(quatMulTo(a, b)) is
\* the matrix that fromQuat(a).multiply(fromQuat(b)) leaves, and
\* fromQuat((0, 0, 0, 1)) leaves the identity matrix.
C29_ComposeInOrder ==
  /\ (op = "quatMulTo" /\ IsNormalized(args[1]) /\ IsNormalized(args[2]))
       => FromQuat(m, out).data
            = Multiply(FromQuat(m, args[1]).data, FromQuat(m, args[2]).data).data
  /\ (op = "fromQuat" /\ args = <<<<Zero, Zero, Zero, One>>>>) => m = Identity

\* quatMulTo() has multiplied the half turn about x by the third of a turn
\* about (1, 1, 1), two rotations that do not commute, and the matrix of the
\* product is the product of the two matrices in the order of the operands
\* and not in the other.
C29_Witness ==
  /\ op = "quatMulTo"
  /\ args = <<<<One, Zero, Zero, Zero>>, <<Q(1, 2), Q(1, 2), Q(1, 2), Q(1, 2)>>>>
  /\ FromQuat(m, out).data
       = Multiply(FromQuat(m, args[1]).data, FromQuat(m, args[2]).data).data
  /\ FromQuat(m, out).data
       # Multiply(FromQuat(m, args[2]).data, FromQuat(m, args[1]).data).data

====
